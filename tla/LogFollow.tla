----------------------------- MODULE LogFollow -----------------------------
(***************************************************************************)
(* How lnd's log becomes the neutrino progress of its status: FollowLogs   *)
(* and FollowLogs2 (service/core/single_container_service.go) follow the   *)
(* log of the container over its restarts, and LogWatcher                  *)
(* (service/lnd/logwatcher.go) folds its lines into current, total and     *)
(* done.  Three goroutines pass lines on over unbuffered channels: the     *)
(* reader of one log stream, the follower that opens a stream per run, and *)
(* the watcher.  The container cache that WaitContainerRunning looks at is *)
(* the two samplers of ContainerView: initContainer, which reads once and  *)
(* may store late, and OnEvent.  Nothing calls LogWatcher.Stop, so the     *)
(* flag running stays true.                                                *)
(***************************************************************************)
EXTENDS Integers, Sequences

CONSTANTS
    MaxRun,     \* bound: starts of the container
    MaxLines,   \* bound: lines in the log of a container
    MaxHeight,  \* bound: block heights
    MaxFaults   \* bound: Docker API calls and log streams that fail

ASSUME LogBounds == /\ MaxRun \in Nat \ {0} /\ MaxLines \in Nat
                    /\ MaxHeight \in Nat /\ MaxFaults \in Nat

VARIABLES
    docker,    \* the container: [status, run]; run is its StartedAt
    log,       \* the log Docker keeps of it, over its restarts
    cache,     \* the container the service shows
    initSnap,  \* what initContainer has inspected and not yet stored
    snap,      \* what an event handler has inspected and not yet stored
    follower,  \* FollowLogs2: [pc, since, line]
    reader,    \* FollowLogs: [on, next, upto, line] of the stream followed
    watch,     \* LogWatcher: [current, total, done, first, last]
    faults     \* failures so far

vars == <<docker, log, cache, initSnap, snap, follower, reader, watch, faults>>

Run       == 0..MaxRun
Height    == 0..MaxHeight
State     == [status : {"absent", "exited", "running"}, run : Run]
Unread    == [status |-> "unread", run |-> 0]
NoReading == [status |-> "none", run |-> 0]
(* A line the watcher matches: the n-th of its log, and whether it is the  *)
(* first of its run.  Other lines change nothing and are left out.         *)
Line      == [kind : {"total", "current", "done"}, h : Height, run : Run,
              n : 1..MaxLines, begins : BOOLEAN]
None      == [kind |-> "none"]
EOF       == [kind |-> "EOF"]
Sent      == Line \cup {EOF}
Zero      == [current |-> 0, total |-> 0, done |-> FALSE, first |-> None,
              last |-> None]
NoReader  == [on |-> FALSE, next |-> 1, upto |-> 0, line |-> None]

TypeOK ==
    /\ docker \in State /\ cache \in State
    /\ snap \in State \cup {NoReading} /\ initSnap \in State \cup {Unread, NoReading}
    /\ log \in Seq(Line) /\ Len(log) <= MaxLines
    /\ follower \in [pc : {"wait", "open", "range", "stuck"}, since : Run,
                     line : Sent \cup {None}]
    /\ reader \in [on : BOOLEAN, next : 1..(MaxLines + 1), upto : Run,
                   line : Sent \cup {None}]
    /\ watch \in [current : Height, total : Height, done : BOOLEAN,
                  first : Line \cup {None}, last : Line \cup {None}]
    /\ faults \in 0..MaxFaults

Init ==
    /\ docker \in {[status |-> "absent", run |-> 0], [status |-> "running", run |-> 1]}
    /\ log = <<>>
    /\ cache = [status |-> "absent", run |-> 0]
    /\ initSnap = Unread
    /\ snap = NoReading
    /\ follower = [pc |-> "wait", since |-> 0, line |-> None]
    /\ reader = NoReader
    /\ watch = Zero
    /\ faults = 0

Fault == faults < MaxFaults /\ faults' = faults + 1

-----------------------------------------------------------------------------
(* Docker and lnd.                                                         *)
OnlyDocker == UNCHANGED <<cache, initSnap, snap, follower, reader, watch, faults>>

Start == /\ docker.status # "running" /\ docker.run < MaxRun
         /\ docker' = [status |-> "running", run |-> docker.run + 1]
         /\ UNCHANGED log /\ OnlyDocker
Die   == /\ docker.status = "running"
         /\ docker' = [docker EXCEPT !.status = "exited"]
         /\ UNCHANGED log /\ OnlyDocker
Delete == /\ docker.status = "exited"
          /\ docker' = [docker EXCEPT !.status = "absent"]
          /\ log' = <<>> /\ OnlyDocker

ThisRun == {i \in DOMAIN log : log[i].run = docker.run}

(* lnd first says up to which height it syncs, then from which heights     *)
(* below it fetches filters, then that it has caught up.                   *)
Emit ==
    /\ docker.status = "running" /\ Len(log) < MaxLines
    /\ \E kind \in {"total", "current", "done"}, h \in 1..MaxHeight :
          /\ (ThisRun = {}) <=> (kind = "total")
          /\ \A i \in ThisRun : log[i].begins =>
                /\ kind = "current" => h < log[i].h
                /\ kind = "done" => h >= log[i].h
          /\ log' = Append(log, [kind |-> kind, h |-> h, run |-> docker.run,
                                 n |-> Len(log) + 1, begins |-> ThisRun = {}])
    /\ UNCHANGED docker /\ OnlyDocker

(* The cache samples Docker once at startup and on every event; the        *)
(* inspect of an absent container fails and leaves it as it was.           *)
InitInspect == /\ initSnap = Unread /\ docker.status # "absent"
               /\ initSnap' = docker
               /\ UNCHANGED <<docker, log, cache, snap, follower, reader, watch, faults>>
InitShow    == /\ initSnap \in State
               /\ cache' = initSnap /\ initSnap' = NoReading
               /\ UNCHANGED <<docker, log, snap, follower, reader, watch, faults>>
Inspect     == /\ snap = NoReading /\ docker.status # "absent"
               /\ snap' = docker
               /\ UNCHANGED <<docker, log, cache, initSnap, follower, reader, watch, faults>>
Show        == /\ snap \in State
               /\ cache' = snap /\ snap' = NoReading
               /\ UNCHANGED <<docker, log, initSnap, follower, reader, watch, faults>>
Sample      == InitInspect \/ InitShow \/ Inspect \/ Show

-----------------------------------------------------------------------------
(* FollowLogs2.                                                            *)

(* WaitContainerRunning, and StartedAt of the container it returns.        *)
Wait ==
    /\ follower.pc = "wait" /\ cache.status = "running"
    /\ follower' = [follower EXCEPT !.pc = "open", !.since = cache.run]
    /\ UNCHANGED <<docker, log, cache, initSnap, snap, reader, watch, faults>>

(* Line i is the first since a start of the container.                     *)
FirstSince(i, since) == /\ \A j \in 1..(i - 1) : log[j].run < since
                        /\ i <= Len(log) => log[i].run >= since

(* ContainerLogs follows the container as it is, up to the end of its run. *)
Open ==
    /\ follower.pc = "open" /\ docker.status # "absent"
    /\ follower' = [follower EXCEPT !.pc = "range"]
    /\ \E i \in 1..(Len(log) + 1) :
          /\ FirstSince(i, follower.since)
          /\ reader' = [on |-> TRUE, next |-> i, upto |-> docker.run, line |-> None]
    /\ UNCHANGED <<docker, log, cache, initSnap, snap, watch, faults>>

(* On an error the goroutine sleeps, and then ranges over a nil channel.   *)
OpenFails ==
    /\ follower.pc = "open"
    /\ \/ docker.status = "absent" /\ UNCHANGED faults
       \/ docker.status # "absent" /\ Fault
    /\ follower' = [follower EXCEPT !.pc = "stuck"]
    /\ UNCHANGED <<docker, log, cache, initSnap, snap, reader, watch>>

-----------------------------------------------------------------------------
(* The goroutine of FollowLogs.                                            *)
Readable == /\ reader.next <= Len(log) /\ log[reader.next].run <= reader.upto

Read ==
    /\ reader.on /\ reader.line = None /\ Readable
    /\ reader' = [reader EXCEPT !.line = log[reader.next], !.next = @ + 1]
    /\ UNCHANGED <<docker, log, cache, initSnap, snap, follower, watch, faults>>

(* ReadLine fails: the stream ends with the run it follows, or breaks.     *)
SendEOF == /\ reader.on /\ reader.line = None
           /\ reader' = [reader EXCEPT !.line = EOF]
           /\ UNCHANGED <<docker, log, cache, initSnap, snap, follower, watch>>

ReadEnds == /\ ~ Readable /\ docker # [status |-> "running", run |-> reader.upto]
            /\ SendEOF /\ UNCHANGED faults
StreamBreaks == SendEOF /\ Fault

(* A variant that drops a line while the follower is busy.                 *)
HandOverOrDrop ==
    /\ reader.line # None
    /\ follower' = IF follower.line = None
                   THEN [follower EXCEPT !.line = reader.line] ELSE follower
    /\ reader' = IF reader.line = EOF THEN NoReader ELSE [reader EXCEPT !.line = None]
    /\ UNCHANGED <<docker, log, cache, initSnap, snap, watch, faults>>

(* ch <- line, received by the range of the follower; the channel is       *)
(* closed after the sentinel.                                              *)
HandOver ==
    /\ reader.line # None
    /\ follower.pc = "range" /\ follower.line = None
    /\ follower' = [follower EXCEPT !.line = reader.line]
    /\ reader' = IF reader.line = EOF THEN NoReader ELSE [reader EXCEPT !.line = None]
    /\ UNCHANGED <<docker, log, cache, initSnap, snap, watch, faults>>

-----------------------------------------------------------------------------
(* LogWatcher.Start: the effect of a line on the progress.                 *)
Larger(a, b) == IF a > b THEN a ELSE b

(* A variant that adds the heights up.                                     *)
EffectAdds(w, x) ==
    IF x = EOF THEN Zero
    ELSE [w EXCEPT !.current = @ + x.h, !.last = x]

Effect(w, x) ==
    IF x = EOF THEN Zero
    ELSE LET seen == [w EXCEPT !.first = IF @ = None THEN x ELSE @, !.last = x]
         IN  CASE x.kind = "total"   -> [seen EXCEPT !.total = x.h]
               [] x.kind = "current" -> [seen EXCEPT !.current = x.h]
               [] x.kind = "done"    -> [seen EXCEPT !.current = Larger(x.h, w.total),
                                                     !.total   = Larger(x.h, w.total),
                                                     !.done    = TRUE]

(* A variant that keeps the progress of an earlier run.                    *)
DeliverNoReset ==
    /\ follower.line # None
    /\ watch' = IF follower.line = EOF THEN [watch EXCEPT !.done = FALSE,
                                                !.first = None, !.last = None]
                ELSE Effect(watch, follower.line)
    /\ follower' = [follower EXCEPT !.line = None,
                        !.pc = IF follower.line = EOF THEN "wait" ELSE @]
    /\ UNCHANGED <<docker, log, cache, initSnap, snap, reader, faults>>

(* A variant whose goroutine ends with the first run it has followed.      *)
DeliverOneRun ==
    /\ follower.line # None
    /\ watch' = Effect(watch, follower.line)
    /\ follower' = [follower EXCEPT !.line = None]
    /\ UNCHANGED <<docker, log, cache, initSnap, snap, reader, faults>>

(* ch <- line of FollowLogs2, received and folded in by the watcher; after *)
(* the sentinel the follower waits for the container again.                *)
Deliver ==
    /\ follower.line # None
    /\ watch' = Effect(watch, follower.line)
    /\ follower' = [follower EXCEPT !.line = None,
                        !.pc = IF follower.line = EOF THEN "wait" ELSE @]
    /\ UNCHANGED <<docker, log, cache, initSnap, snap, reader, faults>>

ReaderStep == Read \/ ReadEnds \/ StreamBreaks \/ HandOver
Environment == Start \/ Die \/ Delete \/ Emit \/ Sample

Next == Environment \/ Wait \/ Open \/ OpenFails \/ ReaderStep \/ Deliver

Spec == Init /\ [][Next]_vars

Fairness == WF_vars(Wait) /\ WF_vars(Open) /\ WF_vars(Read \/ HandOver)
            /\ WF_vars(ReadEnds) /\ WF_vars(Deliver)

FairSpec == Spec /\ Fairness

-----------------------------------------------------------------------------
(* Properties.                                                             *)

(* What the watcher has folded in since it last reset begins with the      *)
(* first line of a run and then misses, repeats and reorders nothing,      *)
(* whatever restarts, broken streams and stale caches lie in between.      *)
InOrder ==
    [][LET x == watch'.last
       IN  x # watch.last /\ x # None =>
              IF watch.last = None THEN x.begins ELSE x.n = watch.last.n + 1]_vars

(* syncingText says "Synced 100%".                                         *)
Synced == watch.current > 0 /\ watch.current >= watch.total

(* While the lines folded in are of one run, the progress says "Synced"    *)
(* only after lnd logged that it caught up.  (A follow that began with the *)
(* start of an earlier run, which a stale container gives, mixes two.)     *)
SyncedIsDone ==
    Synced /\ watch.first # None /\ watch.first.run = watch.last.run => watch.done

(* When the container runs on and the service shows it, the progress       *)
(* catches up with its log, unless a stream once could not be opened: then *)
(* the follower is stuck on a nil channel.                                 *)
CaughtUp == ThisRun # {} => watch.last = log[Len(log)]

CatchesUp ==
    <>[](docker.status = "running" /\ cache = docker /\ follower.pc # "stuck")
        => <>[]CaughtUp
=============================================================================
