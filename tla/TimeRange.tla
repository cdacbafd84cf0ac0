----------------------------- MODULE TimeRange -----------------------------
(***************************************************************************)
(* The 10-second time ranges of the agent: get_time_range of src/utils.rs  *)
(* and the range a Session of src/session.rs claims.  Times are seconds    *)
(* since the epoch.                                                        *)
(*                                                                         *)
(* In the code a timestamp of 0 stands for "the current time"; callers     *)
(* that pass 0 are modelled by passing the clock itself.                   *)
(***************************************************************************)
EXTENDS Integers

\* The length of a range, a literal in the code.
RangeSecs == 10

\* utils.rs: the range [from, until) a timestamp falls in, and what is left of it.
get_time_range(timestamp) ==
  [ from    |-> (timestamp \div RangeSecs) * RangeSecs,
    until   |-> (timestamp \div RangeSecs) * RangeSecs + RangeSecs,
    current |-> timestamp,
    rem     |-> RangeSecs - (timestamp % RangeSecs) ]

\* session.rs, Session::new: the range before the one that starts at `until`.
SessionRange(until) ==
  [ from  |-> get_time_range(until).from  - RangeSecs,
    until |-> get_time_range(until).until - RangeSecs ]

\* The end of the wait of Timer::set_timerfd, and the argument of a periodic
\* and of a final snapshot taken at time t.
FirstFire(t)        == get_time_range(t).until
PeriodicSnapshot(t) == get_time_range(t).from
FinalSnapshot(t)    == get_time_range(t).until
=============================================================================
