------------------------------- MODULE Timers -------------------------------
(***************************************************************************)
(* The timers of the oSIP transactions (osip_transaction.c, osip_time.c).  *)
(*                                                                         *)
(* The code keeps for each timer a length in milliseconds and an absolute  *)
(* start date, which is really the date at which it falls due: starting a  *)
(* timer stores now + length, stopping it stores tv_sec = -1, and it is    *)
(* due when now is strictly later than the stored date.  What decides is   *)
(* the distance between the stored date and now, so a timer is modelled by *)
(* that distance plus one: Off when stopped, 0 when due, and otherwise the *)
(* number of clock ticks that remain until it is due.                      *)
(***************************************************************************)
EXTENDS Integers

\* timer_x_start.tv_sec = -1
Off == -1

\* osip_gettimeofday (&timer_x_start) ; add_gettimeofday (&timer_x_start, length)
Start(length) == length + 1

\* The comparison of __osip_transaction_need_timer_x_event.
Due(timer) == timer = 0

\* One tick of the clock, as it changes the distance to a timer's date.
Elapse(timer) == IF timer > 0 THEN timer - 1 ELSE timer

=============================================================================
