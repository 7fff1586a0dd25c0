------------------------------ MODULE Prompts ------------------------------
(* The templates of the prompts, read from files when a server starts          *)
(* (prompts/loader.py), and the bridge that keeps their versions and labels in *)
(* Langfuse, with a cache in every server (prompts/langfuse_bridge.py).  One   *)
(* template is followed; a server's calls to Langfuse block its event loop, so *)
(* that only those of other servers come between them.                         *)
EXTENDS Naturals, Sequences, FiniteSets, FiniteSetsExt

CONSTANTS
  Servers,
  Hyphened,      \* whether the id of the template has a hyphen
  Deployments,   \* bodies that the file of the template may have
  Graphs,        \* includes of the files of a deployment: those of each template
  MaxVersions    \* bound: versions in Langfuse

VARIABLES
  deployed,   \* the body in its file
  langfuse,   \* the bodies of the versions of the prompt, and which has each label
  server,
  unseen,     \* labels that moved without a server that holds them cached having a part in it
  meddled     \* servers that did not seed, or have fetched the version of a label since

vars == <<deployed, langfuse, server, unseen, meddled>>

Labels == {"production", "staging"}
NoVersion == 0
Nothing == [l \in Labels |-> NoVersion]
Down == [pc |-> "down", body |-> 0, cache |-> Nothing, endless |-> FALSE]

Init ==
  /\ deployed = 1
  /\ langfuse = [bodies |-> <<>>, label |-> Nothing]
  /\ server = [s \in Servers |-> Down]
  /\ unseen = {} /\ meddled = {}

At(s, pc) == server[s].pc = pc
Seeded(s, version) == server' = [server EXCEPT ![s].pc = "up", ![s].cache["production"] = version]
-----------------------------------------------------------------------------
\* Depth first, from every template; what is included and is no template is a fragment.
DetectCircularRefs(graph) ==
  LET nodes == DOMAIN graph \cup UNION {graph[t] : t \in DOMAIN graph}
      states == [path : SUBSET nodes, visited : SUBSET nodes, cycle : BOOLEAN]
      visit[node \in nodes, s \in states] ==
        IF s.cycle \/ node \in s.visited THEN s
        ELSE IF node \in s.path THEN [s EXCEPT !.cycle = TRUE]
        ELSE LET deps == IF node \in DOMAIN graph THEN graph[node] ELSE {}
                 t == FoldSet(LAMBDA dep, u : visit[dep, u], [s EXCEPT !.path = @ \cup {node}], deps)
             IN  [t EXCEPT !.path = @ \ {node}, !.visited = @ \cup {node}]
  IN  FoldSet(LAMBDA node, s : visit[node, s], [path |-> {}, visited |-> {}, cycle |-> FALSE],
              DOMAIN graph).cycle

\* Some templates include one another only: no rendering of them ends.
Endless(graph) ==
  \E group \in SUBSET DOMAIN graph : group # {} /\ \A t \in group : graph[t] \cap group # {}

Deploy ==
  /\ \E body \in (1..Deployments) \ {deployed} : deployed' = body
  /\ UNCHANGED <<langfuse, server, unseen, meddled>>

\* A circle of includes keeps the server from starting.
Start(s) ==
  /\ At(s, "down")
  /\ \E graph \in Graphs :
       /\ ~DetectCircularRefs(graph)
       /\ server' = [server EXCEPT ![s] =
            [pc |-> "seeding", body |-> deployed, cache |-> Nothing, endless |-> Endless(graph)]]
  /\ UNCHANGED <<deployed, langfuse, unseen, meddled>>

Stop(s) ==
  /\ ~At(s, "down")
  /\ server' = [server EXCEPT ![s] = Down]
  /\ unseen' = {u \in unseen : u[1] # s} /\ meddled' = meddled \ {s}
  /\ UNCHANGED <<deployed, langfuse>>

\* A version has the label from now on; by is the server that saw to it.
Label(version, l) == langfuse' = [langfuse EXCEPT !.label[l] = version]
Unseen(by, l) == unseen \cup {<<s, l>> : s \in {s \in Servers \ {by} : server[s].cache[l] # NoVersion}}
-----------------------------------------------------------------------------
Live == langfuse.label["production"]
SameBody(s) == Live # NoVersion /\ langfuse.bodies[Live] = server[s].body

SeedSkips(s) ==
  /\ At(s, "seeding") /\ SameBody(s)
  /\ Seeded(s, Live)
  /\ UNCHANGED <<deployed, langfuse, unseen, meddled>>

\* Not there, not the same, or not to be had just now: all of them call for a new version.
SeedDiffers(s) ==
  /\ At(s, "seeding")
  /\ server' = [server EXCEPT ![s].pc = "creating"]
  /\ UNCHANGED <<deployed, langfuse, unseen, meddled>>

\* Whatever was activated, the file of the template is live again.
SeedCreates(s) ==
  LET version == Len(langfuse.bodies) + 1 IN
  /\ At(s, "creating") /\ version <= MaxVersions
  /\ langfuse' = [bodies |-> Append(langfuse.bodies, server[s].body),
                  label |-> [langfuse.label EXCEPT !["production"] = version]]
  /\ Seeded(s, version)
  /\ unseen' = Unseen(s, "production")
  /\ UNCHANGED <<deployed, meddled>>

\* The game goes on without.
SeedFails(s) ==
  /\ At(s, "creating")
  /\ server' = [server EXCEPT ![s].pc = "up"]
  /\ meddled' = meddled \cup {s}
  /\ UNCHANGED <<deployed, langfuse, unseen>>
-----------------------------------------------------------------------------
Refresh(s, l) ==
  /\ langfuse.label[l] # NoVersion
  /\ server' = [server EXCEPT ![s].cache[l] = langfuse.label[l]]
  /\ unseen' = unseen \ {<<s, l>>}
  /\ meddled' = meddled \cup {s}

Text(s) == server[s].body

\* A turn renders what is live, fetching it if it is not cached: the text is that of the
\* file, the version it is told to be of is the cached one.
Render(s) ==
  /\ At(s, "up") /\ server[s].cache["production"] = NoVersion /\ Refresh(s, "production")
  /\ UNCHANGED <<deployed, langfuse>>

\* Of the name in Langfuse of a template with a hyphen the id is not found again: nothing is
\* rendered, and what was fetched is cached where nobody looks.
Preview(s, l) ==
  /\ At(s, "up") /\ Refresh(s, l)
  /\ UNCHANGED <<deployed, langfuse>>

Cleared_Never(s, byName) == server
\* The entries cleared are those of the id that the admin's name of the prompt stands for.
Cleared(s, byName) ==
  IF byName /\ Hyphened THEN server ELSE [server EXCEPT ![s].cache = Nothing]

\* The version that is fetched without a label gets this one.
Activate(s, l, byName) ==
  /\ At(s, "up")
  /\ \E version \in DOMAIN langfuse.bodies : Label(version, l)
  /\ server' = Cleared(s, byName)
  /\ unseen' = IF byName /\ Hyphened THEN Unseen("nobody", l) ELSE Unseen(s, l) \ ({s} \X Labels)
  /\ UNCHANGED <<deployed, meddled>>

\* The label moved, or not, and the answer did not come: the cache stays.
ActivationBreaks(s, l) ==
  /\ At(s, "up")
  /\ \E version \in DOMAIN langfuse.bodies : Label(version, l)
  /\ unseen' = Unseen("nobody", l)
  /\ UNCHANGED <<deployed, server, meddled>>

Next ==
  \/ Deploy
  \/ \E s \in Servers :
       \/ Start(s) \/ Stop(s) \/ SeedSkips(s) \/ SeedDiffers(s) \/ SeedCreates(s) \/ SeedFails(s) \/ Render(s)
       \/ \E l \in Labels :
            \/ Preview(s, l) \/ ActivationBreaks(s, l)
            \/ \E byName \in BOOLEAN : Activate(s, l, byName)

Spec == Init /\ [][Next]_vars
-----------------------------------------------------------------------------
\* AC-09.02: a server that renders with another version than the live one has not been told:
\* the label was moved by another server, in a call that broke off, or under a name it did
\* not know again.  What it has activated itself, it uses next.
CacheIsExcused ==
  \A s \in Servers, l \in Labels :
    \/ server[s].cache[l] \in {NoVersion, langfuse.label[l]}
    \/ <<s, l>> \in unseen

\* AC-09.04: whatever other servers, of other deployments too, seed and activate, one that
\* seeded and has not fetched since tells of the version whose text it renders.
SeededRendersItsOwn ==
  \A s \in Servers :
    At(s, "up") /\ s \notin meddled /\ server[s].cache["production"] # NoVersion
      => langfuse.bodies[server[s].cache["production"]] = Text(s)

\* A server that starts can render its templates.
RenderingEnds == \A s \in Servers : ~server[s].endless
=============================================================================
