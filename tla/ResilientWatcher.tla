-------------------------- MODULE ResilientWatcher --------------------------
(***************************************************************************)
(* The goroutine behind DynamicK8sClient.Watch: it opens a watch of the API *)
(* server, hands its events over an unbuffered channel, and opens another   *)
(* one when the server ends it.                                             *)
(*                                                                          *)
(* The versions of the watched object are hist[1], hist[2], ...; a version  *)
(* number stands for a resourceVersion.  A watch from version v delivers    *)
(* v + 1, v + 2, ... at any later time; a watch without one (0) starts with *)
(* the current version.  SendsVersion and SendsError are the goroutine's    *)
(* half of a hand-over; the module that reads the channel has the other.    *)
(***************************************************************************)
EXTENDS Naturals, Sequences

CONSTANTS
    MaxVersions,  \* versions of the object in a behaviour
    Failures      \* calls that may fail: a subset of {"watch", "get"}

ASSUME VersionAssumption == MaxVersions \in Nat \ {0}
ASSUME FailureAssumption == Failures \subseteq {"watch", "get"}

VARIABLES
    hist,       \* contents of the object's versions
    wpc,        \* where the goroutine is
    wrv,        \* opts.ResourceVersion, 0 when empty
    wpos,       \* last version the open watch has delivered
    stopped,    \* stopCh is closed
    cancelled   \* the context of the request is done

\* What a wait looks for is in the object, or not; or there is no object.
Contents == {"absent", "unmet", "met"}

Current == hist[Len(hist)]

ObjectChanges ==
    /\ Len(hist) < MaxVersions
    /\ \E c \in Contents :
          /\ Current = "absent" => c # "absent"
          /\ hist' = Append(hist, c)

-----------------------------------------------------------------------------
WatcherPcs == {"off", "top", "dial", "senderr", "stream", "sleep", "gone"}

\* Nothing of an earlier watch is left but, possibly, a goroutine stuck in the
\* hand-over of an error that nobody will read.
WatcherOver == wpc \in {"off", "gone", "senderr"}

\* client.Watch: the goroutine starts at the top of its loop.
Opens(rv) ==
    /\ wpc' = "top"
    /\ wrv' = rv
    /\ wpos' = 0

Top ==
    /\ wpc = "top"
    /\ wpc' = IF stopped \/ cancelled THEN "gone" ELSE "dial"
    /\ UNCHANGED <<wrv, wpos>>

\* Mutant: the watch repeats the version it resumes from.
DialInclusive ==
    /\ wpc = "dial" /\ ~cancelled
    /\ wpc' = "stream"
    /\ wpos' = IF wrv # 0 THEN wrv - 1
               ELSE IF Current = "absent" THEN Len(hist) ELSE Len(hist) - 1
    /\ wrv' = wrv

\* Without a resourceVersion the first event is the current object, if any.
DialSucceeds ==
    /\ wpc = "dial"
    /\ ~cancelled
    /\ wpc' = "stream"
    /\ wpos' = IF wrv # 0 THEN wrv
               ELSE IF Current = "absent" THEN Len(hist) ELSE Len(hist) - 1
    /\ wrv' = wrv

DialFails ==
    /\ wpc = "dial"
    /\ cancelled \/ "watch" \in Failures
    /\ wpc' = "senderr"
    /\ UNCHANGED <<wrv, wpos>>

\* Mutant: after a reconnect the watch starts with the current object.
SendsVersionWithoutResume(v) ==
    /\ wpc = "stream"
    /\ wpos < Len(hist) /\ v = wpos + 1
    /\ wpos' = v /\ wrv' = 0
    /\ UNCHANGED wpc

\* The hand-over of an event, and the resourceVersion to resume from.
SendsVersion(v) ==
    /\ wpc = "stream"
    /\ wpos < Len(hist)
    /\ v = wpos + 1
    /\ wpos' = v
    /\ wrv' = v
    /\ UNCHANGED wpc

\* The hand-over of an error: of the failed dial, outside any select, or of
\* the open watch (410 Gone, for instance), which keeps the resourceVersion.
SendsError ==
    /\ \/ wpc = "senderr" /\ wpc' = "sleep"
       \/ wpc = "stream" /\ "watch" \in Failures /\ wpc' = wpc
    /\ UNCHANGED <<wrv, wpos>>

\* With an event in its hands the goroutine also listens to Stop and the context.
Leaves ==
    /\ wpc = "stream"
    /\ stopped \/ cancelled
    /\ wpos < Len(hist)
    /\ wpc' = "gone"
    /\ UNCHANGED <<wrv, wpos>>

\* Mutant: the watch is opened with a context of its own.
StreamClosesByServer ==
    /\ wpc = "stream" /\ ~cancelled
    /\ wpc' = "sleep"
    /\ UNCHANGED <<wrv, wpos>>

\* The server ends the watch, or client-go does when the context is done.
StreamCloses ==
    /\ wpc = "stream"
    /\ wpc' = "sleep"
    /\ UNCHANGED <<wrv, wpos>>

Wakes ==
    /\ wpc = "sleep"
    /\ wpc' = "top"
    /\ UNCHANGED <<wrv, wpos>>

\* The goroutine's steps that need no reader.
WatcherStep ==
    /\ Top \/ DialSucceeds \/ DialFails \/ Leaves \/ StreamCloses \/ Wakes
    /\ UNCHANGED <<hist, stopped, cancelled>>
=============================================================================
