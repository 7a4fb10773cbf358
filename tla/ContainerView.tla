---------------------------- MODULE ContainerView ----------------------------
(***************************************************************************)
(* What the cache of containers promises, without its events, listeners    *)
(* and waiters: what is shown under a name was read from Docker under that *)
(* name.  A first reading is taken once and may be shown at any later      *)
(* time; the other readings are taken one at a time and shown, or dropped, *)
(* before the next is taken.                                               *)
(***************************************************************************)
CONSTANTS
    Services,
    Absent,   \* what Docker may hold under a name that has no container
    Nil       \* one of them: nothing shown, nothing read

VARIABLES
    docker,   \* docker[s]: the truth
    cache,    \* cache[s]: what is shown
    started,  \* started[s]: the first reading has been attempted
    first,    \* first[s]: the first reading while it is not shown, or Nil
    later     \* later[s]: a later reading while it is not shown, or Nil

vars == <<docker, cache, started, first, later>>

Init ==
    /\ cache = [s \in Services |-> Nil]
    /\ started = [s \in Services |-> FALSE]
    /\ first = [s \in Services |-> Nil]
    /\ later = [s \in Services |-> Nil]

Change == UNCHANGED <<cache, started, first, later>>

ReadFirst(s) ==
    /\ ~ started[s]
    /\ started' = [started EXCEPT ![s] = TRUE]
    /\ \/ first' = first
       \/ docker[s] \notin Absent /\ first' = [first EXCEPT ![s] = docker[s]]
    /\ UNCHANGED <<docker, cache, later>>

ShowFirst(s) ==
    /\ first[s] # Nil
    /\ cache' = [cache EXCEPT ![s] = first[s]]
    /\ first' = [first EXCEPT ![s] = Nil]
    /\ UNCHANGED <<docker, started, later>>

Read(s) ==
    /\ \A r \in Services : later[r] = Nil
    /\ docker[s] \notin Absent
    /\ later' = [later EXCEPT ![s] = docker[s]]
    /\ UNCHANGED <<docker, cache, started, first>>

Show(s) ==
    /\ later[s] # Nil
    /\ cache' = [cache EXCEPT ![s] = later[s]]
    /\ later' = [later EXCEPT ![s] = Nil]
    /\ UNCHANGED <<docker, started, first>>

Next ==
    \/ Change
    \/ \E s \in Services : \/ ReadFirst(s) \/ ShowFirst(s)
                           \/ Read(s) \/ Show(s)

Spec == Init /\ [][Next]_vars
=============================================================================
