---------------------------- MODULE LeaseTiming ----------------------------
(***************************************************************************)
(* The arithmetic of an execution lease, in whole seconds.  The store      *)
(* derives all three intervals from the timeout of the task that holds the *)
(* claim; nothing here depends on a worker's clock.                        *)
(***************************************************************************)
EXTENDS Integers

LeaseSlack       == 15
RenewThresholdCap == 10
RenewCadenceCap   == 5

AtLeast(floor, n) == IF n < floor THEN floor ELSE n
AtMost(cap, n)    == IF n > cap THEN cap ELSE n

\* Fault: the slack is forgotten.
LeaseTtlWithoutSlack(timeout) == timeout
\* How long a claim lives after it is acquired or renewed.
LeaseTtl(timeout) == timeout + LeaseSlack

\* A renewal is a no-op while more than this much of the lease is left.
RenewThreshold(timeout) == AtMost(RenewThresholdCap, AtLeast(5, timeout \div 3))

\* ... and while the last heartbeat is younger than this.
RenewCadence(timeout) == AtMost(RenewCadenceCap, AtLeast(2, timeout \div 6))

Pressures == {"healthy", "coalesced", "renew_window"}

\* What the claim view shows an operator of a lease with `left' seconds to
\* live whose last heartbeat is `age' seconds old.
RenewalPressure(timeout, left, age) ==
  IF left > RenewThreshold(timeout) THEN "healthy"
  ELSE IF age < RenewCadence(timeout) THEN "coalesced"
  ELSE "renew_window"

=============================================================================
