----------------------------- MODULE SectionTimer -----------------------------
(***************************************************************************)
(* The section timers: section_timer.c on the host, cuda_section_timer.cu  *)
(* with a pair of events per section.  A timer is a record; the operations *)
(* return the timer after the call.  Time is the number of timestamps and  *)
(* event records so far: the device completes the records of its stream in *)
(* order, later than the host makes them.                                  *)
(***************************************************************************)
EXTENDS Integers

Unused == [start |-> 0, stop |-> 0, pending |-> FALSE, totalSec |-> 0,
           wallStart |-> 0, wallSec |-> 0, counts |-> 0]

\* now: records made; done: records completed by the device.
Create(sections, device) ==
  [device |-> device, now |-> 0, done |-> 0, sec |-> [s \in sections |-> Unused]]

\* What gpuEventElapsedTime gives for a pair whose records are not both complete.
NotReady == -1000

Elapsed(t, p) == IF p.start < p.stop /\ p.stop <= t.done THEN p.stop - p.start ELSE NotReady

\* gpuEventSynchronize on the stop event of section s returns.
Complete(t, s) == t.sec[s].pending => t.sec[s].stop <= t.done

\* A section after the pending pair, e apart, was added.
Added(p, e) == [p EXCEPT !.totalSec = p.totalSec + e, !.counts = p.counts + 1, !.pending = FALSE]

\* (Fault) The pair stays pending after it was added.
DrainSectionAgain(t, s) ==
  IF ~t.sec[s].pending THEN t
  ELSE LET p == Added(t.sec[s], Elapsed(t, t.sec[s]))
       IN [t EXCEPT !.sec[s] = [p EXCEPT !.pending = TRUE]]

DrainSection(t, s) ==
  IF ~t.sec[s].pending THEN t
  ELSE [t EXCEPT !.sec[s] = Added(t.sec[s], Elapsed(t, t.sec[s]))]

Started(p, at) == [p EXCEPT !.wallStart = at, !.start = at]

Start(t, s) ==
  LET d == DrainSection(t, s)
  IN [d EXCEPT !.now = d.now + 1, !.sec[s] = Started(d.sec[s], d.now + 1)]

\* On the device the stop is recorded, on the host the interval is added at once.
Stopped(p, at, device) ==
  LET wall == p.wallSec + (at - p.wallStart)
  IN IF device THEN [p EXCEPT !.stop = at, !.pending = TRUE, !.wallSec = wall]
     ELSE [p EXCEPT !.totalSec = p.totalSec + (at - p.start), !.wallSec = wall,
                    !.counts = p.counts + 1]

Stop(t, s) == [t EXCEPT !.now = t.now + 1, !.sec[s] = Stopped(t.sec[s], t.now + 1, t.device)]

CanSync(t) == \A s \in DOMAIN t.sec : Complete(t, s)

\* Draining a section looks at no other one.
Sync(t) == [t EXCEPT !.sec = [s \in DOMAIN t.sec |-> DrainSection(t, s).sec[s]]]

\* The device has worked off everything the host gave it.
CaughtUp(t) == [t EXCEPT !.done = IF t.device THEN t.now ELSE 0]
=============================================================================
