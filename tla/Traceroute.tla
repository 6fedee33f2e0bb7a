------------------------------ MODULE Traceroute ------------------------------
(*****************************************************************************)
(* person/traceroute: traceloop sends Tries probes per hop and waits for     *)
(* each of them in recv_v4, with a SIGALRM after a second to end the wait.   *)
(*                                                                           *)
(* The network (external) answers a probe whose ttl ends on the way with the *)
(* address of that router, any other with an echo reply; an answer may be    *)
(* late, lost, or of another ICMP type.  Nothing else on the host uses ICMP. *)
(* An answer is the ttl of its probe: recv_v4 looks at nothing else of it.   *)
(*****************************************************************************)
EXTENDS Integers

CONSTANTS
  HopsMax,    \* hops_max
  Tries,      \* looptime
  TtlSize,    \* the number of values of ip_ttl: 256
  Distances   \* how many hops away the destination may be

Hops == 1 .. HopsMax

VARIABLES
  dist,      \* the distance of the destination
  pc,        \* where the program is
  hops,      \* status.hops_time
  curtime,   \* probes of this hop that are over
  gotalarm,  \* status.gotalarm
  timer,     \* is an alarm pending in the kernel?
  shown,     \* the router printed on the line of each hop; 0: none
  net,       \* answers on the way, by ttl
  sock,      \* answers that arrived, by ttl
  done

vars == <<dist, pc, hops, curtime, gotalarm, timer, shown, net, sock, done>>

TypeOK ==
  /\ dist \in Distances
  /\ pc \in {"loop", "send", "recv", "test", "enter", "blocked", "end"}
  /\ hops \in 1 .. HopsMax + 1
  /\ curtime \in 0 .. Tries
  /\ gotalarm \in {0, 1} /\ timer \in BOOLEAN /\ done \in BOOLEAN
  /\ shown \in [Hops -> 0 .. HopsMax]
  /\ net \in [Hops -> Nat] /\ sock \in [Hops -> Nat]
-------------------------------------------------------------------------------
(* traceloop.                                                                *)

(* Mutant: the count of probes is not reset for the next hop. *)
HopLoop_NoReset ==
  /\ pc = "loop"
  /\ pc' = IF hops < HopsMax + 1 /\ ~done THEN "send" ELSE "end"
  /\ UNCHANGED <<dist, hops, curtime, gotalarm, timer, shown, net, sock, done>>

(* The next hop, unless the destination answered or there are too many. *)
HopLoop ==
  /\ pc = "loop"
  /\ pc' = IF hops < HopsMax + 1 /\ ~done THEN "send" ELSE "end"
  /\ curtime' = 0
  /\ UNCHANGED <<dist, hops, gotalarm, timer, shown, net, sock, done>>

(* ip_ttl has 8 bits; the first router ends a probe with ttl 0 as with 1. *)
Ttl(h) == IF h % TtlSize = 0 THEN 1 ELSE h % TtlSize

(* Mutant: the counter is raised before the probe is sent. *)
SendV4_EarlyTtl ==
  /\ pc = "send"
  /\ pc' = "recv"
  /\ net' = [net EXCEPT ![Ttl(hops + 1)] = @ + 1]
  /\ UNCHANGED <<dist, hops, curtime, gotalarm, timer, shown, sock, done>>

(* send_v4: a probe with ttl hops_time. *)
SendV4 ==
  /\ pc = "send"
  /\ net' = [net EXCEPT ![Ttl(hops)] = @ + 1]
  /\ pc' = "recv"
  /\ UNCHANGED <<dist, hops, curtime, gotalarm, timer, shown, sock, done>>

(* recv_v4 returned: the next probe of this hop, or the next hop. *)
NextProbe(arrived) ==
  /\ done' = arrived
  /\ curtime' = curtime + 1
  /\ IF curtime' < Tries /\ ~arrived
     THEN pc' = "send" /\ UNCHANGED hops
     ELSE pc' = "loop" /\ hops' = hops + 1
-------------------------------------------------------------------------------
(* recv_v4.                                                                  *)

(* gotalarm = 0; alarm(1). *)
RecvStart ==
  /\ pc = "recv"
  /\ gotalarm' = 0
  /\ timer' = TRUE
  /\ pc' = "test"
  /\ UNCHANGED <<dist, hops, curtime, shown, net, sock, done>>

TestAlarm ==
  /\ pc = "test"
  /\ \/ gotalarm = 1 /\ NextProbe(FALSE)
     \/ gotalarm = 0 /\ pc' = "enter" /\ UNCHANGED <<hops, curtime, done>>
  /\ UNCHANGED <<dist, gotalarm, timer, shown, net, sock>>

(* The program enters recvfrom and blocks: from here on a signal interrupts. *)
EnterRecvfrom ==
  /\ pc = "enter"
  /\ pc' = "blocked"
  /\ UNCHANGED <<dist, hops, curtime, gotalarm, timer, shown, net, sock, done>>

(* recvfrom returns a datagram that is too short or no ICMP: continue. *)
Discard(h) ==
  /\ sock' = [sock EXCEPT ![h] = @ - 1]
  /\ pc' = "test"
  /\ UNCHANGED <<hops, curtime, timer, shown, done>>

(* ICMP_TIME_EXCEEDED: the first one of a hop prints the address. *)
TimeExceeded(h) ==
  /\ h < dist
  /\ shown' = IF shown[hops] = 0 THEN [shown EXCEPT ![hops] = h] ELSE shown
  /\ NextProbe(FALSE)

(* ICMP_ECHOREPLY: the destination. *)
EchoReply(h) ==
  /\ h >= dist
  /\ NextProbe(TRUE)
  /\ UNCHANGED shown

(* Any other type counts as no answer. *)
OtherType == NextProbe(FALSE) /\ UNCHANGED shown

Recvfrom(h) ==
  /\ pc = "blocked"
  /\ sock[h] > 0
  /\ \/ Discard(h)
     \/ /\ sock' = [sock EXCEPT ![h] = @ - 1]
        /\ timer' = FALSE    \* alarm(0)
        /\ TimeExceeded(h) \/ EchoReply(h) \/ OtherType
  /\ UNCHANGED <<dist, gotalarm, net>>
-------------------------------------------------------------------------------
(* Mutant: the interrupted call is restarted. *)
SigAlrm_Restart ==
  /\ timer
  /\ timer' = FALSE
  /\ gotalarm' = 1
  /\ UNCHANGED <<dist, pc, hops, curtime, shown, net, sock, done>>

(* SIGALRM, caught by sig_alrm: a blocked recvfrom fails with EINTR. *)
SigAlrm ==
  /\ timer
  /\ timer' = FALSE
  /\ gotalarm' = 1
  /\ pc' = IF pc = "blocked" THEN "test" ELSE pc
  /\ UNCHANGED <<dist, hops, curtime, shown, net, sock, done>>

(* The network delivers or loses an answer. *)
Arrive(h) ==
  /\ net[h] > 0
  /\ net' = [net EXCEPT ![h] = @ - 1]
  /\ sock' = [sock EXCEPT ![h] = @ + 1]
  /\ UNCHANGED <<dist, pc, hops, curtime, gotalarm, timer, shown, done>>

Lose(h) ==
  /\ net[h] > 0
  /\ net' = [net EXCEPT ![h] = @ - 1]
  /\ UNCHANGED <<dist, pc, hops, curtime, gotalarm, timer, shown, sock, done>>

(* SIGINT, caught by sig_term, or an error of recvfrom: exit.  *)
Quit ==
  /\ pc # "end"
  /\ pc' = "end"
  /\ UNCHANGED <<dist, hops, curtime, gotalarm, timer, shown, net, sock, done>>

Program ==
  \/ HopLoop \/ SendV4 \/ RecvStart \/ TestAlarm \/ EnterRecvfrom
  \/ \E h \in Hops : Recvfrom(h)

Init ==
  /\ dist \in Distances
  /\ pc = "loop"
  /\ hops = 1
  /\ curtime = 0
  /\ gotalarm = 0
  /\ timer = FALSE
  /\ shown = [h \in Hops |-> 0]
  /\ net = [h \in Hops |-> 0]
  /\ sock = [h \in Hops |-> 0]
  /\ done = FALSE

Next == Program \/ SigAlrm \/ Quit \/ \E h \in Hops : Arrive(h) \/ Lose(h)

Spec == Init /\ [][Next]_vars

(* The program runs and the kernel delivers a pending alarm. *)
FairSpec == Spec /\ WF_vars(Program) /\ WF_vars(SigAlrm)
-------------------------------------------------------------------------------
(* Answers are not matched with probes, so a late one is credited to a later *)
(* hop.  Never to an earlier one: a line names a router that is at most that *)
(* far away, and the destination is announced only once it is in reach.      *)
NeverTooFar ==
  /\ \A h \in Hops : shown[h] <= h /\ shown[h] < dist
  /\ done => hops > dist

(* The alarm fired after recv_v4 tested gotalarm and before recvfrom began:  *)
(* nothing but another datagram ends this wait.                              *)
AlarmMissed == pc = "enter" /\ gotalarm = 1

(* However many answers are lost, the trace comes to its end, unless an      *)
(* alarm is missed in the window between the test and recvfrom.              *)
TraceEnds == <>(pc = "end" \/ AlarmMissed)
===============================================================================
