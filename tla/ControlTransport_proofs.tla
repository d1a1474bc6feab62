---------------------- MODULE ControlTransport_proofs ----------------------
(***************************************************************************)
(* Proofs about ControlTransport, for any ranks, bodies and bounds: what   *)
(* the coordinator keeps, the agreement of the ranks, and that the         *)
(* transport implements GroupDecision.                                     *)
(*                                                                         *)
(* The argument: whatever lies in a connection or in a round was really    *)
(* sent by its rank for that sequence number, however late it is           *)
(* delivered, because a rank builds one body per sequence number.  A round *)
(* that is complete therefore finds every rank waiting for it, so that no  *)
(* rank is more than one decision behind and two retained rounds suffice.  *)
(***************************************************************************)
EXTENDS ControlTransport, FiniteSetTheorems, SequenceTheorems, TLAPS

HistoryOK ==
    /\ sent \in [Ranks -> Seq(Bodies)]
    /\ decisions \in Seq([Ranks -> Bodies])
    /\ received \in [Ranks -> Seq([Ranks -> Bodies])]

(* A rank has sent one body per gather: those that returned, and one more   *)
(* while it waits or after it gave up.                                      *)
SentOnce ==
    \A r \in Ranks :
        /\ Len(sent[r]) <= MaxSeq
        /\ message[r] = None /\ r \notin broken => Len(sent[r]) = sequence[r]
        /\ message[r] # None \/ r \in broken => Len(sent[r]) = sequence[r] + 1
        /\ message[r] # None => r \notin broken /\ message[r] = sent[r][sequence[r] + 1]

(* What a connection carries was sent by its rank; a reply is a decision.   *)
Carries(c) ==
    /\ c.seq < Len(sent[c.rank]) /\ c.body = sent[c.rank][c.seq + 1]
    /\ c.live => message[c.rank] # None /\ c.seq = sequence[c.rank]
    /\ c.state = "reply" =>
           /\ c.seq < next
           /\ \A q \in Ranks : decisions[c.seq + 1][q] =
                                 [phase |-> c.body.phase, payload |-> c.members[q]]

OneLive == \A c, d \in conns : c.live /\ d.live /\ c.rank = d.rank => c = d

(* A round holds what its members, one at least, sent for it; the decided   *)
(* ones precede next, are complete, and the last of them is kept.           *)
Holds(s, round) ==
    \A r \in Ranks : round.members[r] # None =>
        /\ s < Len(sent[r])
        /\ sent[r][s + 1] = [phase |-> round.phase, payload |-> round.members[r]]
Begun(round) == \E r \in Ranks : round.members[r] # None
RoundOK(s) ==
    /\ s <= next /\ next <= s + 2
    /\ rounds[s].decided <=> s < next
    /\ rounds[s].decided => Complete(rounds[s].members)
    /\ Holds(s, rounds[s]) /\ Begun(rounds[s])
RoundsOK == /\ \A s \in DOMAIN rounds : RoundOK(s)
            /\ next > 0 => next - 1 \in DOMAIN rounds

(* A decision is what all ranks sent; what a rank received are decisions.   *)
DecisionsOK ==
    /\ Len(decisions) = next
    /\ \A k \in 1..next : \A r \in Ranks : k <= Len(sent[r]) /\ decisions[k][r] = sent[r][k]
ReceivedOK ==
    \A r \in Ranks :
        /\ Len(received[r]) = sequence[r] /\ sequence[r] <= next
        /\ \A k \in 1..sequence[r] : received[r][k] = decisions[k]

(* request() throws for a difference of phases or an evicted round only.    *)
FatalOK == fatal \in {"none", "phase", "evicted"}

TransportInv ==
    /\ TypeOK /\ HistoryOK /\ SentOnce /\ FatalOK
    /\ \A c \in conns : Carries(c)
    /\ OneLive /\ RoundsOK /\ DecisionsOK /\ ReceivedOK

-----------------------------------------------------------------------------
(* The invariant implies the properties *)

LEMMA InvBounded == TransportInv => BoundedRounds
<1> SUFFICES ASSUME TransportInv PROVE BoundedRounds
  OBVIOUS
<1> USE DEF TransportInv
<1> DEFINE open == {s \in DOMAIN rounds : ~rounds[s].decided}
<1>1. next \in Nat /\ DOMAIN rounds \subseteq Nat
  BY DEF TypeOK
<1>2. open \subseteq {next}
  BY <1>1 DEF RoundsOK, RoundOK
<1>3. DOMAIN rounds \ open \subseteq (next - 2)..(next - 1)
  BY <1>1 DEF RoundsOK, RoundOK
<1>4. Cardinality(open) <= 1
  <2>1. IsFiniteSet({next}) /\ Cardinality({next}) = 1
    BY FS_Singleton
  <2> QED BY <1>2, <2>1, FS_Subset
<1>5. Cardinality(DOMAIN rounds \ open) <= 2
  <2>1. IsFiniteSet((next - 2)..(next - 1)) /\ Cardinality((next - 2)..(next - 1)) = 2
    BY <1>1, FS_Interval
  <2> QED BY <1>3, <2>1, FS_Subset
<1> QED BY <1>4, <1>5 DEF BoundedRounds

LEMMA InvRetained == TransportInv => RetainedUntilAdvanced
<1> SUFFICES ASSUME TransportInv, NEW r \in Ranks
             PROVE  /\ sequence[r] <= next /\ next <= sequence[r] + 1
                    /\ sequence[r] < next =>
                          sequence[r] \in DOMAIN rounds /\ rounds[sequence[r]].decided
  BY DEF RetainedUntilAdvanced
<1> USE DEF TransportInv
<1>1. next \in Nat /\ sequence[r] \in Nat /\ Len(sent[r]) \in Nat
  BY TransportAssumption DEF TypeOK, HistoryOK
<1>2. sequence[r] <= next
  BY DEF ReceivedOK
<1>3. next <= Len(sent[r])
  <2>1. CASE next = 0
    BY <1>1, <2>1
  <2>2. CASE next # 0
    BY <1>1, <2>2 DEF DecisionsOK
  <2> QED BY <2>1, <2>2
<1>4. Len(sent[r]) <= sequence[r] + 1
  BY <1>1 DEF SentOnce
<1>5. ASSUME sequence[r] < next
      PROVE  sequence[r] \in DOMAIN rounds /\ rounds[sequence[r]].decided
  <2>1. sequence[r] = next - 1
    BY <1>1, <1>3, <1>4, <1>5
  <2> QED BY <1>1, <1>5, <2>1 DEF RoundsOK, RoundOK
<1> QED BY <1>1, <1>2, <1>3, <1>4, <1>5

LEMMA InvExplained ==
    ASSUME TransportInv, NEW c \in conns, Rejected(c)
    PROVE  \/ /\ Reason(c) = "evicted"
              /\ ~c.live /\ \A r \in Ranks : c.seq < sequence[r]
           \/ /\ Reason(c) = "phase"
              /\ \E q, r \in Ranks :
                     /\ c.seq < Len(sent[q]) /\ c.seq < Len(sent[r])
                     /\ sent[q][c.seq + 1].phase # sent[r][c.seq + 1].phase
<1> USE DEF TransportInv
<1>1. /\ c \in Conn /\ c.rank \in Ranks /\ c.seq \in Nat /\ next \in Nat /\ Carries(c)
      /\ sequence \in [Ranks -> Nat]
  BY TransportAssumption DEF TypeOK, Conn
<1>2. \A r \in Ranks : sequence[r] <= next /\ next <= sequence[r] + 1
  BY InvRetained DEF RetainedUntilAdvanced
<1>3. c.seq <= next
  <2>1. Len(sent[c.rank]) <= sequence[c.rank] + 1 /\ Len(sent[c.rank]) \in Nat
    <3>1. Len(sent[c.rank]) \in Nat /\ sequence[c.rank] \in Nat
      BY <1>1 DEF HistoryOK
    <3> QED BY <1>1, <3>1 DEF SentOnce
  <2> QED BY <1>1, <1>2, <2>1 DEF Carries
<1>4. CASE c.seq \notin DOMAIN rounds
  <2>1. c.seq < next /\ next - 1 \in DOMAIN rounds
    BY <1>1, <1>3, <1>4 DEF Rejected, RoundsOK
  <2>2. \A r \in Ranks : c.seq < sequence[r]
    BY <1>1, <1>2, <1>4, <2>1
  <2>3. ~c.live
    BY <1>1, <2>2 DEF Carries
  <2> QED BY <1>1, <1>3, <1>4, <2>1, <2>2, <2>3 DEF Reason
<1>5. CASE c.seq \in DOMAIN rounds
  <2>1. RoundOK(c.seq)
    BY <1>5 DEF RoundsOK
  <2>2. c.seq < Len(sent[c.rank]) /\ c.body = sent[c.rank][c.seq + 1]
    BY <1>1 DEF Carries
  <2>3. PICK q \in Ranks : rounds[c.seq].members[q] # None
    BY <2>1 DEF RoundOK, Begun
  <2>4. c.seq < Len(sent[q]) /\ sent[q][c.seq + 1].phase = rounds[c.seq].phase
    <3>1. Holds(c.seq, rounds[c.seq])
      BY <2>1 DEF RoundOK
    <3>2. /\ c.seq < Len(sent[q])
          /\ sent[q][c.seq + 1]
                = [phase |-> rounds[c.seq].phase, payload |-> rounds[c.seq].members[q]]
      BY <2>3, <3>1, Zenon DEF Holds
    <3> QED BY <3>2
  <2>5. rounds[c.seq].phase # c.body.phase
    <3>1. rounds[c.seq].members[c.rank] # None
             => rounds[c.seq].members[c.rank] = c.body.payload
      <4>1. rounds[c.seq].members[c.rank] # None =>
              sent[c.rank][c.seq + 1] = [phase |-> rounds[c.seq].phase,
                                         payload |-> rounds[c.seq].members[c.rank]]
        BY <1>1, <2>1, Zenon DEF RoundOK, Holds
      <4> QED BY <2>2, <4>1
    <3> QED BY <1>1, <1>3, <1>5, <3>1 DEF Rejected
  <2>6. Reason(c) = "phase"
    BY <1>1, <1>3, <1>5, <2>5 DEF Reason
  <2> QED BY <1>1, <2>2, <2>4, <2>5, <2>6
<1> QED BY <1>4, <1>5

LEMMA InvAgreement == TransportInv => Agreement
<1> SUFFICES ASSUME TransportInv, NEW r \in Ranks, NEW k \in 1..Len(received[r]), NEW q \in Ranks
             PROVE  /\ k <= Len(sent[q]) /\ received[r][k][q] = sent[q][k]
                    /\ k <= Len(received[q]) => received[q][k] = received[r][k]
  BY DEF Agreement
<1> USE DEF TransportInv
<1>1. next \in Nat /\ sequence[r] \in Nat /\ sequence[q] \in Nat
  BY TransportAssumption DEF TypeOK
<1>2. k \in 1..sequence[r] /\ k \in 1..next
  BY <1>1 DEF ReceivedOK
<1>3. received[r][k] = decisions[k]
  BY <1>2 DEF ReceivedOK
<1>4. k <= Len(received[q]) => received[q][k] = decisions[k]
  BY <1>1, <1>2 DEF ReceivedOK
<1> QED BY <1>2, <1>3, <1>4 DEF DecisionsOK

-----------------------------------------------------------------------------
(* The invariant is inductive *)

LEMMA InitInv == Init => TransportInv
<1> SUFFICES ASSUME Init PROVE TransportInv
  OBVIOUS
<1> USE DEF Init
<1>1. TypeOK
  <2>1. fatal \in {"none", "ahead", "evicted", "phase", "contents"} /\ stopped \in BOOLEAN
    OBVIOUS
  <2>2. /\ sequence \in [Ranks -> 0..MaxSeq]
        /\ message \in [Ranks -> Bodies \cup {None}]
        /\ broken \subseteq Ranks /\ conns \subseteq Conn /\ next \in Nat
    BY TransportAssumption
  <2>3. DOMAIN rounds \subseteq Nat /\ \A s \in DOMAIN rounds : rounds[s] \in Round
    OBVIOUS
  <2> QED BY <2>1, <2>2, <2>3, Zenon DEF TypeOK
<1>2. HistoryOK /\ SentOnce /\ FatalOK
  BY TransportAssumption DEF HistoryOK, SentOnce, FatalOK
<1>3. OneLive /\ \A c \in conns : Carries(c)
  BY DEF OneLive
<1>4. RoundsOK /\ DecisionsOK /\ ReceivedOK
  BY DEF RoundsOK, DecisionsOK, ReceivedOK
<1> QED BY <1>1, <1>2, <1>3, <1>4 DEF TransportInv

(* Steps of the network and of the coordinator's replies: only connections *)
(* change.                                                                 *)
LEMMA ConnsStep ==
    ASSUME TransportInv, UNCHANGED <<sequence, message, broken, coordinator, history>>,
           conns' \subseteq Conn, \A c \in conns' : Carries(c), OneLive'
    PROVE  TransportInv'
<1> USE DEF TransportInv, coordinator, history
<1>1. TypeOK'
  BY DEF TypeOK
<1>2. HistoryOK' /\ FatalOK' /\ SentOnce'
  BY DEF FatalOK, HistoryOK, SentOnce
<1>3. \A c \in conns' : Carries(c)'
  BY DEF Carries
<1>4. RoundsOK' /\ DecisionsOK' /\ ReceivedOK'
  BY DEF RoundsOK, RoundOK, Holds, Begun, Complete, DecisionsOK, ReceivedOK
<1> QED BY <1>1, <1>2, <1>3, <1>4

LEMMA GatherInv ==
    ASSUME TransportInv, NEW r \in Ranks, NEW b \in Bodies, Gather(r, b)
    PROVE  TransportInv'
<1> USE DEF TransportInv, Gather, coordinator
<1>1. /\ sequence[r] \in Nat /\ MaxSeq \in Nat /\ sent[r] \in Seq(Bodies)
      /\ Len(sent[r]) = sequence[r]
  BY TransportAssumption DEF TypeOK, HistoryOK, SentOnce
<1>2. /\ sent' = [sent EXCEPT ![r] = Append(sent[r], b)]
      /\ Append(sent[r], b) \in Seq(Bodies)
      /\ Len(Append(sent[r], b)) = sequence[r] + 1
      /\ Append(sent[r], b)[sequence[r] + 1] = b
      /\ \A k \in 1..sequence[r] : Append(sent[r], b)[k] = sent[r][k]
  BY <1>1
<1>3. TypeOK'
  BY DEF TypeOK
<1>4. HistoryOK' /\ FatalOK'
  BY <1>2 DEF FatalOK, HistoryOK
<1>5. b # None
  BY BodyAssumption
<1>6. SentOnce'
  BY <1>1, <1>2, <1>5 DEF SentOnce, TypeOK, HistoryOK
<1>7. \A q \in Ranks : /\ sent[q] \in Seq(Bodies) /\ Len(sent[q]) \in Nat
                       /\ Len(sent[q]) <= Len(sent'[q])
                       /\ \A k \in 1..Len(sent[q]) : sent'[q][k] = sent[q][k]
  BY <1>1, <1>2 DEF HistoryOK
<1>8. \A c \in conns : Carries(c)'
  <2> SUFFICES ASSUME NEW c \in conns PROVE Carries(c)'
    OBVIOUS
  <2>1. Carries(c) /\ c \in Conn
    BY DEF TypeOK
  <2>2. c.seq + 1 \in 1..Len(sent[c.rank])
    BY <2>1, <1>7 DEF Conn, Carries
  <2>3. c.seq < Len(sent'[c.rank]) /\ c.body = sent'[c.rank][c.seq + 1]
    BY <2>1, <2>2, <1>7 DEF Conn, Carries
  <2>4. c.live => message'[c.rank] # None /\ c.seq = sequence'[c.rank]
    BY <2>1 DEF Conn, Carries, TypeOK
  <2> QED BY <2>1, <2>3, <2>4 DEF Carries
<1>9. OneLive'
  BY DEF OneLive
<1>10. RoundsOK'
  <2> SUFFICES ASSUME NEW s \in DOMAIN rounds PROVE Holds(s, rounds[s])'
    BY DEF RoundsOK, RoundOK, Begun, Complete
  <2>1. s \in Nat /\ Holds(s, rounds[s])
    BY DEF TypeOK, RoundsOK, RoundOK
  <2> QED BY <2>1, <1>7 DEF Holds
<1>11. DecisionsOK'
  <2>1. next \in Nat
    BY DEF TypeOK
  <2> QED BY <2>1, <1>7 DEF DecisionsOK
<1>12. ReceivedOK'
  BY DEF ReceivedOK
<1> QED BY <1>3, <1>4, <1>6, <1>8, <1>9, <1>10, <1>11, <1>12

LEMMA ConnectInv ==
    ASSUME TransportInv, NEW r \in Ranks, Connect(r)
    PROVE  TransportInv'
<1> DEFINE n == [rank |-> r, seq |-> sequence[r], body |-> message[r],
                 live |-> TRUE, state |-> "unread", members |-> Empty]
<1> USE DEF TransportInv
<1>1. /\ message[r] # None /\ conns' = conns \cup {n} /\ Live(r) = {}
      /\ UNCHANGED <<sequence, message, broken, coordinator, history>>
  BY DEF Connect
<1>2. n \in Conn /\ sequence[r] \in Nat
  BY <1>1, TransportAssumption DEF TypeOK, Conn, Empty
<1>3. Carries(n)
  BY <1>1, <1>2 DEF SentOnce, Carries
<1>4. OneLive'
  <2>1. n.rank = r /\ \A d \in conns : ~(d.live /\ d.rank = r)
    BY <1>1 DEF Live, Of
  <2> SUFFICES ASSUME NEW d \in conns', NEW e \in conns', d.live, e.live, d.rank = e.rank
               PROVE  d = e
    BY DEF OneLive
  <2>2. CASE d \in conns /\ e \in conns
    BY <2>2 DEF OneLive
  <2>3. CASE d = n \/ e = n
    BY <1>1, <2>1, <2>3
  <2> QED BY <1>1, <2>2, <2>3
<1>5. conns' \subseteq Conn
  BY <1>1, <1>2 DEF TypeOK
<1> QED BY <1>1, <1>3, <1>4, <1>5, ConnsStep

LEMMA TrialTimeoutInv ==
    ASSUME TransportInv, NEW c \in conns, TrialTimeout(c)
    PROVE  TransportInv'
<1> DEFINE n == [c EXCEPT !.live = FALSE]
<1> USE DEF TransportInv
<1>1. /\ conns' = (conns \ {c}) \cup {n} /\ c \in Conn
      /\ UNCHANGED <<sequence, message, broken, coordinator, history>>
  BY DEF TrialTimeout, TypeOK
<1>2. n \in Conn /\ n.live = FALSE
  BY <1>1 DEF Conn
<1>3. Carries(n)
  BY <1>1 DEF Carries, Conn
<1>4. OneLive' /\ conns' \subseteq Conn
  <2>1. conns' \subseteq Conn
    BY <1>1, <1>2 DEF TypeOK
  <2> QED BY <1>1, <1>2, <2>1, Zenon DEF OneLive
<1> QED BY <1>1, <1>3, <1>4, ConnsStep

LEMMA LoseInv ==
    ASSUME TransportInv, NEW c \in conns, Lose(c)
    PROVE  TransportInv'
<1>1. OneLive' /\ conns' \subseteq Conn /\ \A d \in conns' : Carries(d)
  BY DEF TransportInv, Lose, OneLive, TypeOK
<1> QED BY <1>1, ConnsStep DEF Lose

(* A connection that keeps its identity and gets a new state. *)
LEMMA Restated ==
    ASSUME TransportInv, NEW c \in conns, NEW n \in Conn, n.rank = c.rank, n.live = c.live,
           conns' = (conns \ {c}) \cup {n}
    PROVE  conns' \subseteq Conn /\ OneLive'
<1>1. conns' \subseteq Conn
  BY DEF TransportInv, TypeOK
<1>2. OneLive'
  <2> SUFFICES ASSUME NEW d \in conns', NEW e \in conns', d.live, e.live, d.rank = e.rank
               PROVE  d = e
    BY DEF OneLive
  <2>1. CASE d \in conns /\ e \in conns
    BY <2>1 DEF TransportInv, OneLive
  <2>2. CASE d = n
    BY <2>2 DEF TransportInv, OneLive
  <2>3. CASE e = n
    BY <2>3 DEF TransportInv, OneLive
  <2> QED BY <2>1, <2>2, <2>3
<1> QED BY <1>1, <1>2

LEMMA ServeInv ==
    ASSUME TransportInv, NEW c \in conns, Serve(c)
    PROVE  TransportInv'
<1> USE DEF TransportInv
<1>1. /\ c \in Conn /\ Carries(c)
      /\ UNCHANGED <<sequence, message, broken, coordinator, history>>
  BY DEF Serve, TypeOK
<1>2. CASE conns' = (conns \ {c}) \cup {[c EXCEPT !.state = "error"]}
  <2> DEFINE n == [c EXCEPT !.state = "error"]
  <2>1. n \in Conn /\ n.rank = c.rank /\ n.live = c.live
    BY <1>1 DEF Conn
  <2>2. Carries(n)
    BY <1>1 DEF Carries, Conn
  <2>3. conns' \subseteq Conn /\ OneLive'
    BY <1>2, <2>1, Restated
  <2> QED BY <1>1, <1>2, <2>2, <2>3, ConnsStep
<1>3. CASE conns' = conns \ {c}
  BY <1>1, <1>3, ConnsStep DEF OneLive, TypeOK
<1>4. CASE /\ c.seq \in DOMAIN rounds /\ rounds[c.seq].decided
           /\ conns' = (conns \ {c}) \cup
                 {[c EXCEPT !.state = "reply", !.members = rounds[c.seq].members]}
  <2> DEFINE round == rounds[c.seq]
             n == [c EXCEPT !.state = "reply", !.members = round.members]
  <2>1. round \in Round /\ RoundOK(c.seq) /\ c.seq \in Nat /\ next \in Nat
    BY <1>1, <1>4 DEF TypeOK, RoundsOK, Conn
  <2>2. n \in Conn /\ n.rank = c.rank /\ n.live = c.live
    BY <1>1, <2>1 DEF Conn, Round
  <2>3. c.seq < next /\ c.seq + 1 \in 1..next
    BY <1>4, <2>1 DEF RoundOK
  <2>4. \A q \in Ranks : sent[q][c.seq + 1] = [phase |-> round.phase, payload |-> round.members[q]]
    BY <1>4, <2>1 DEF RoundOK, Holds, Begun, Complete
  <2>5. c.body.phase = round.phase
    <3>1. c.rank \in Ranks /\ c.body = sent[c.rank][c.seq + 1]
      BY <1>1 DEF Carries, Conn
    <3>2. c.body = [phase |-> round.phase, payload |-> round.members[c.rank]]
      BY <3>1, <2>4
    <3> QED BY <3>2
  <2>6. \A q \in Ranks : decisions[c.seq + 1][q] = [phase |-> c.body.phase, payload |-> round.members[q]]
    BY <2>3, <2>4, <2>5 DEF DecisionsOK
  <2>7. Carries(n)
    BY <1>1, <2>3, <2>6 DEF Carries, Conn
  <2>8. conns' \subseteq Conn /\ OneLive'
    BY <1>4, <2>2, Restated
  <2> QED BY <1>1, <1>4, <2>7, <2>8, ConnsStep
<1> QED BY <1>2, <1>3, <1>4 DEF Serve

LEMMA ReadRejectedInv ==
    ASSUME TransportInv, NEW c \in conns, ReadRejected(c)
    PROVE  TransportInv'
<1> DEFINE n == [c EXCEPT !.state = "error"]
<1> USE DEF TransportInv
<1>1. /\ c \in Conn /\ Carries(c) /\ conns' = (conns \ {c}) \cup {n} /\ fatal' = Reason(c) /\ Rejected(c)
      /\ UNCHANGED <<sequence, message, broken, rounds, next, stopped, history>>
  BY DEF ReadRejected, TypeOK
<1>2. n \in Conn /\ n.rank = c.rank /\ n.live = c.live /\ Carries(n)
  BY <1>1 DEF Conn, Carries
<1>3. conns' \subseteq Conn /\ OneLive'
  BY <1>1, <1>2, Restated
<1>0. fatal' \in {"phase", "evicted"}
  BY <1>1, InvExplained
<1>4. TypeOK'
  <2>1. fatal' \in {"none", "ahead", "evicted", "phase", "contents"}
    BY <1>0
  <2> QED BY <1>1, <1>3, <2>1, Zenon DEF TypeOK
<1>5. HistoryOK' /\ FatalOK' /\ SentOnce'
  BY <1>0, <1>1 DEF FatalOK, HistoryOK, SentOnce, history
<1>6. \A d \in conns' : Carries(d)'
  BY <1>1, <1>2 DEF Carries, history
<1>7. RoundsOK' /\ DecisionsOK' /\ ReceivedOK'
  BY <1>1 DEF RoundsOK, RoundOK, Holds, Begun, Complete, DecisionsOK, ReceivedOK, history
<1> QED BY <1>3, <1>4, <1>5, <1>6, <1>7

LEMMA ReceiveInv ==
    ASSUME TransportInv, NEW c \in conns, Receive(c)
    PROVE  TransportInv'
<1> DEFINE r == c.rank
           answer == [q \in Ranks |-> [phase |-> c.body.phase, payload |-> c.members[q]]]
<1> USE DEF TransportInv
<1>1. /\ c \in Conn /\ Carries(c) /\ c.live /\ c.state = "reply" /\ conns' = conns \ {c}
      /\ sequence' = [sequence EXCEPT ![r] = @ + 1]
      /\ message' = [message EXCEPT ![r] = None]
      /\ received' = [received EXCEPT ![r] = Append(@, answer)]
      /\ UNCHANGED <<broken, rounds, next, fatal, stopped, sent, decisions>>
  BY DEF Receive, TypeOK, coordinator
<1>2. /\ r \in Ranks /\ message[r] # None /\ c.seq = sequence[r] /\ c.seq < next
      /\ sequence[r] \in Nat /\ next \in Nat /\ MaxSeq \in Nat
      /\ received[r] \in Seq([Ranks -> Bodies]) /\ Len(received[r]) = sequence[r]
      /\ Len(sent[r]) = sequence[r] + 1 /\ Len(sent[r]) <= MaxSeq /\ r \notin broken
  BY <1>1, TransportAssumption DEF Carries, Conn, TypeOK, HistoryOK, ReceivedOK, SentOnce
<1>3. answer = decisions[sequence[r] + 1] /\ answer \in [Ranks -> Bodies]
  <2>1. decisions[sequence[r] + 1] \in [Ranks -> Bodies]
    BY <1>2 DEF HistoryOK, DecisionsOK
  <2> QED BY <1>1, <1>2, <2>1 DEF Carries
<1>4. TypeOK'
  <2>1. sequence' \in [Ranks -> 0..MaxSeq] /\ message' \in [Ranks -> Bodies \cup {None}]
    BY <1>1, <1>2 DEF TypeOK
  <2>2. conns' \subseteq Conn
    BY <1>1 DEF TypeOK
  <2> QED BY <1>1, <2>1, <2>2, Zenon DEF TypeOK
<1>5. /\ Append(received[r], answer) \in Seq([Ranks -> Bodies])
      /\ Len(Append(received[r], answer)) = sequence[r] + 1
      /\ Append(received[r], answer)[sequence[r] + 1] = answer
      /\ \A k \in 1..sequence[r] : Append(received[r], answer)[k] = received[r][k]
  BY <1>2, <1>3
<1>6. HistoryOK' /\ FatalOK'
  BY <1>1, <1>5 DEF FatalOK, HistoryOK
<1>7. SentOnce'
  BY <1>1, <1>2 DEF SentOnce, TypeOK
<1>8. \A d \in conns' : Carries(d)'
  <2> SUFFICES ASSUME NEW d \in conns, d # c PROVE Carries(d)'
    BY <1>1
  <2>1. Carries(d) /\ d \in Conn
    BY DEF TypeOK
  <2>2. d.live => d.rank # r
    BY <1>1 DEF OneLive
  <2>3. d.live => message'[d.rank] # None /\ d.seq = sequence'[d.rank]
    BY <1>1, <2>1, <2>2 DEF Carries, Conn, TypeOK
  <2> QED BY <1>1, <2>1, <2>3 DEF Carries
<1>9. OneLive'
  BY <1>1 DEF OneLive
<1>10. RoundsOK' /\ DecisionsOK'
  BY <1>1 DEF RoundsOK, RoundOK, Holds, Begun, Complete, DecisionsOK
<1>11. ReceivedOK'
  <2> SUFFICES ASSUME NEW q \in Ranks
               PROVE  /\ Len(received'[q]) = sequence'[q] /\ sequence'[q] <= next
                      /\ \A k \in 1..sequence'[q] : received'[q][k] = decisions[k]
    BY <1>1 DEF ReceivedOK
  <2>1. CASE q = r
    <3>1. received'[q] = Append(received[r], answer) /\ sequence'[q] = sequence[r] + 1
      BY <1>1, <1>2, <2>1 DEF TypeOK, HistoryOK
    <3>2. \A k \in 1..sequence[r] : received[r][k] = decisions[k]
      BY <1>2 DEF ReceivedOK
    <3>3. ASSUME NEW k \in 1..(sequence[r] + 1) PROVE received'[q][k] = decisions[k]
      <4>1. CASE k = sequence[r] + 1
        BY <1>3, <1>5, <3>1, <4>1
      <4>2. CASE k \in 1..sequence[r]
        BY <1>5, <3>1, <3>2, <4>2
      <4> QED BY <1>2, <4>1, <4>2
    <3>4. Len(received'[q]) = sequence'[q]
      BY <1>5, <3>1
    <3>5. sequence'[q] <= next
      BY <1>2, <3>1
    <3>6. \A k \in 1..sequence'[q] : received'[q][k] = decisions[k]
      BY <3>1, <3>3, Zenon
    <3> QED BY <3>4, <3>5, <3>6
  <2>2. CASE q # r
    BY <1>1, <2>2 DEF ReceivedOK, TypeOK, HistoryOK
  <2> QED BY <2>1, <2>2
<1> QED BY <1>4, <1>6, <1>7, <1>8, <1>9, <1>10, <1>11

(* A rank that stops waiting: the rest of its connections, if any, are no   *)
(* longer live.                                                             *)
LEMMA GiveUp ==
    ASSUME TransportInv, NEW r \in Ranks, message[r] # None,
           broken' = broken \cup {r}, message' = [message EXCEPT ![r] = None],
           UNCHANGED <<sequence, coordinator, history>>,
           conns' \subseteq Conn, OneLive', \A d \in conns' : Carries(d),
           \A d \in conns' : d.live => d.rank # r
    PROVE  TransportInv'
<1> USE DEF TransportInv, coordinator, history
<1>1. TypeOK'
  BY DEF TypeOK
<1>2. HistoryOK' /\ FatalOK'
  BY DEF FatalOK, HistoryOK
<1>3. SentOnce'
  BY DEF SentOnce, TypeOK
<1>4. \A d \in conns' : Carries(d)'
  BY DEF Carries, TypeOK, Conn
<1>5. RoundsOK' /\ DecisionsOK' /\ ReceivedOK'
  BY DEF RoundsOK, RoundOK, Holds, Begun, Complete, DecisionsOK, ReceivedOK
<1> QED BY <1>1, <1>2, <1>3, <1>4, <1>5

LEMMA ReceiveErrorInv ==
    ASSUME TransportInv, NEW c \in conns, ReceiveError(c)
    PROVE  TransportInv'
<1> USE DEF TransportInv
<1>1. /\ c \in Conn /\ Carries(c) /\ c.live /\ conns' = conns \ {c}
      /\ broken' = broken \cup {c.rank} /\ message' = [message EXCEPT ![c.rank] = None]
      /\ UNCHANGED <<sequence, coordinator, history>>
  BY DEF ReceiveError, TypeOK
<1>2. c.rank \in Ranks /\ message[c.rank] # None
  BY <1>1 DEF Conn, Carries
<1>3. conns' \subseteq Conn /\ OneLive' /\ \A d \in conns' : Carries(d)
  BY <1>1 DEF TypeOK, OneLive
<1>4. \A d \in conns' : d.live => d.rank # c.rank
  BY <1>1 DEF OneLive
<1> QED BY <1>1, <1>2, <1>3, <1>4, GiveUp

LEMMA DeadlineExpiredInv ==
    ASSUME TransportInv, NEW r \in Ranks, DeadlineExpired(r)
    PROVE  TransportInv'
<1> USE DEF TransportInv
<1>1. /\ message[r] # None
      /\ conns' = (conns \ Live(r)) \cup {[c EXCEPT !.live = FALSE] : c \in Live(r)}
      /\ broken' = broken \cup {r} /\ message' = [message EXCEPT ![r] = None]
      /\ UNCHANGED <<sequence, coordinator, history>>
  BY DEF DeadlineExpired
<1>2. ASSUME NEW c \in Live(r)
      PROVE  /\ [c EXCEPT !.live = FALSE] \in Conn /\ Carries([c EXCEPT !.live = FALSE])
             /\ [c EXCEPT !.live = FALSE].live = FALSE
  <2>1. c \in Conn /\ Carries(c)
    BY DEF Live, Of, TypeOK
  <2> QED BY <2>1 DEF Conn, Carries
<1>3. \A d \in conns' : \/ d \in conns \ Live(r)
                        \/ d \in Conn /\ Carries(d) /\ d.live = FALSE
  BY <1>1, <1>2
<1>4. conns' \subseteq Conn /\ \A d \in conns' : Carries(d)
  BY <1>3 DEF TypeOK
<1>5. \A d \in conns' : d.live => d \in conns /\ d.rank # r
  BY <1>3 DEF Live, Of
<1>6. OneLive'
  BY <1>5 DEF OneLive
<1> QED BY <1>1, <1>4, <1>5, <1>6, GiveUp

LEMMA DestroyInv == TransportInv /\ Destroy => TransportInv'
<1> SUFFICES ASSUME TransportInv, Destroy PROVE TransportInv'
  OBVIOUS
<1> USE DEF TransportInv, Destroy, history
<1>1. TypeOK'
  <2>1. fatal' \in {"none", "ahead", "evicted", "phase", "contents"} /\ stopped' \in BOOLEAN
    BY DEF TypeOK
  <2>2. conns' \subseteq Conn
    OBVIOUS
  <2> QED BY <2>1, <2>2, Zenon DEF TypeOK
<1>2. HistoryOK' /\ FatalOK' /\ SentOnce' /\ OneLive' /\ \A c \in conns' : Carries(c)'
  BY DEF FatalOK, HistoryOK, SentOnce, OneLive
<1>3. RoundsOK' /\ DecisionsOK' /\ ReceivedOK'
  BY DEF RoundsOK, RoundOK, Holds, Begun, Complete, DecisionsOK, ReceivedOK
<1> QED BY <1>1, <1>2, <1>3

(* The round of an accepted frame before and after its member is stored. *)
LEMMA StoredRound ==
    ASSUME TransportInv, NEW c \in conns, ~Rejected(c)
    PROVE  /\ c.seq \in Nat /\ c.seq <= next /\ c.rank \in Ranks
           /\ Stored(c) \in Round /\ Holds(c.seq, Stored(c)) /\ Begun(Stored(c))
           /\ Stored(c).decided => Complete(Stored(c).members)
           /\ c.seq = next \/ c.seq \in DOMAIN rounds
           /\ RoundOf(c).decided <=> c.seq < next
           /\ NewlyDecided(c) => c.seq = next
           /\ ~NewlyDecided(c) => (Stored(c).decided <=> c.seq < next)
<1> DEFINE R == RoundOf(c)
<1> USE DEF TransportInv
<1>1. c \in Conn /\ Carries(c) /\ next \in Nat
  BY DEF TypeOK
<1>2. /\ c.seq \in Nat /\ c.rank \in Ranks /\ c.body \in Bodies
      /\ c.body.phase \in Phases /\ c.body.payload \in Payloads
  BY <1>1 DEF Conn, Bodies
<1>3. c.seq <= next /\ (c.seq = next \/ c.seq \in DOMAIN rounds)
  BY <1>1, <1>2 DEF Rejected
<1>4. R \in Round /\ R.phase = c.body.phase
  <2>1. CASE c.seq \in DOMAIN rounds
    BY <2>1 DEF RoundOf, Rejected, TypeOK
  <2>2. CASE c.seq \notin DOMAIN rounds
    BY <1>2, <2>2 DEF RoundOf, Round, Empty
  <2> QED BY <2>1, <2>2
<1>5. /\ Holds(c.seq, R) /\ (R.decided <=> c.seq < next)
      /\ R.decided => Complete(R.members)
      /\ R.members[c.rank] \in {None, c.body.payload}
  <2>1. CASE c.seq \in DOMAIN rounds
    BY <2>1 DEF RoundOf, Rejected, RoundsOK, RoundOK
  <2>2. CASE c.seq \notin DOMAIN rounds
    <3>1. R = [phase |-> c.body.phase, members |-> Empty, decided |-> FALSE] /\ c.seq = next
      BY <1>3, <2>2 DEF RoundOf
    <3> QED BY <1>1, <1>2, <3>1 DEF Holds, Empty
  <2> QED BY <2>1, <2>2
<1> DEFINE members == [R.members EXCEPT ![c.rank] = IF @ = None THEN c.body.payload ELSE @]
<1>6. /\ members \in [Ranks -> Payloads \cup {None}]
      /\ members[c.rank] = c.body.payload
      /\ \A q \in Ranks : q # c.rank => members[q] = R.members[q]
  BY <1>2, <1>4, <1>5 DEF Round
<1>7. Stored(c) = [phase |-> R.phase, members |-> members, decided |-> R.decided \/ Complete(members)]
  BY DEF Stored
<1>8. Stored(c) \in Round
  BY <1>4, <1>6, <1>7 DEF Round
<1>14. Begun(Stored(c))
  BY <1>2, <1>6, <1>7, BodyAssumption DEF Begun
<1>9. Holds(c.seq, Stored(c))
  <2> SUFFICES ASSUME NEW q \in Ranks, members[q] # None
               PROVE  /\ c.seq < Len(sent[q])
                      /\ sent[q][c.seq + 1] = [phase |-> R.phase, payload |-> members[q]]
    BY <1>7 DEF Holds
  <2>1. CASE q = c.rank
    BY <1>1, <1>2, <1>4, <1>6, <2>1 DEF Carries, Bodies
  <2>2. CASE q # c.rank
    BY <1>5, <1>6, <2>2 DEF Holds
  <2> QED BY <2>1, <2>2
<1>10. Stored(c).decided => Complete(Stored(c).members)
  <2>1. R.decided => Complete(members)
    BY <1>2, <1>5, <1>6, BodyAssumption DEF Complete
  <2>2. Stored(c).members = members /\ Stored(c).decided = (R.decided \/ Complete(members))
    BY <1>7
  <2> QED BY <2>1, <2>2, Zenon
<1>11. R.decided => Stored(c).decided
  <2>1. Stored(c).decided = (R.decided \/ Complete(members))
    BY <1>7
  <2> QED BY <2>1, Zenon
<1> HIDE DEF R, members
<1>12. NewlyDecided(c) => c.seq = next
  BY <1>1, <1>2, <1>3, <1>5 DEF NewlyDecided, R
<1>13. ~NewlyDecided(c) => (Stored(c).decided <=> c.seq < next)
  BY <1>5, <1>11 DEF NewlyDecided, R
<1> QED BY <1>2, <1>3, <1>5, <1>8, <1>9, <1>10, <1>12, <1>13, <1>14 DEF R

(* Eviction after the decision of round n keeps this round and the one      *)
(* before it.                                                               *)
LEMMA Evicted ==
    ASSUME NEW n \in Nat, NEW f, DOMAIN f \subseteq Nat, n \in DOMAIN f,
           \A t \in DOMAIN f : t <= n /\ n <= t + 2, n > 0 => n - 1 \in DOMAIN f
    PROVE  /\ DOMAIN Evict(f) = {t \in DOMAIN f : n <= t + 1}
           /\ \A t \in DOMAIN Evict(f) : Evict(f)[t] = f[t]
<1> DEFINE above(s) == {t \in DOMAIN f : t > s}
<1>1. ASSUME NEW s \in DOMAIN f PROVE Cardinality(above(s)) < 2 <=> n <= s + 1
  <2>1. CASE s = n
    <3>1. above(s) = {}
      BY <2>1
    <3>2. Cardinality(above(s)) = 0
      BY <3>1, FS_EmptySet
    <3> QED BY <2>1, <3>2
  <2>2. CASE s = n - 1
    <3>1. above(s) = {n}
      BY <2>2
    <3>2. Cardinality(above(s)) = 1
      BY <3>1, FS_Singleton
    <3> QED BY <2>2, <3>2
  <2>3. CASE s = n - 2
    <3>1. above(s) = {n - 1} \cup {n}
      BY <2>3
    <3>2. Cardinality({n - 1} \cup {n}) = 2
      <4>1. IsFiniteSet({n - 1}) /\ Cardinality({n - 1}) = 1
        BY FS_Singleton
      <4>2. n \notin {n - 1}
        OBVIOUS
      <4>3. Cardinality({n - 1} \cup {n}) = Cardinality({n - 1}) + 1
        BY <4>1, <4>2, FS_AddElement, Zenon
      <4> QED BY <4>1, <4>3
    <3> QED BY <2>3, <3>1, <3>2
  <2> QED BY <2>1, <2>2, <2>3
<1>2. Evict(f) = [s \in {t \in DOMAIN f : Cardinality(above(t)) < 2} |-> f[s]]
  BY DEF Evict, Retain
<1> HIDE DEF above
<1> QED BY <1>1, <1>2

(* What request() does with an accepted frame: it stores the member, or the *)
(* frame completes round next, which finds what every rank has sent.        *)
LEMMA StoreStep ==
    ASSUME TransportInv, NEW c \in conns, ReadAccepted(c), ~NewlyDecided(c)
    PROVE  /\ next' = next /\ decisions' = decisions
           /\ DOMAIN rounds' \subseteq Nat /\ \A s \in DOMAIN rounds' : rounds'[s] \in Round
           /\ RoundsOK'
<1> USE DEF TransportInv
<1>1. /\ ~Rejected(c) /\ next' = next /\ decisions' = decisions /\ sent' = sent
      /\ rounds' = Put(c.seq, Stored(c))
  BY DEF ReadAccepted
<1>2. /\ c.seq \in Nat /\ next \in Nat /\ c.seq <= next /\ Stored(c) \in Round
      /\ Holds(c.seq, Stored(c)) /\ Begun(Stored(c)) /\ (c.seq = next \/ c.seq \in DOMAIN rounds)
      /\ Stored(c).decided => Complete(Stored(c).members)
      /\ Stored(c).decided <=> c.seq < next
  BY <1>1, StoredRound DEF TypeOK
<1>3. /\ DOMAIN rounds' = DOMAIN rounds \cup {c.seq} /\ rounds'[c.seq] = Stored(c)
      /\ \A s \in DOMAIN rounds : s # c.seq => rounds'[s] = rounds[s]
  BY <1>1 DEF Put
<1>4. DOMAIN rounds' \subseteq Nat /\ \A s \in DOMAIN rounds' : rounds'[s] \in Round
  BY <1>2, <1>3 DEF TypeOK
<1>5. ASSUME NEW s \in DOMAIN rounds' PROVE RoundOK(s)'
  <2>1. CASE s = c.seq
    <3>1. next <= s + 2
      BY <1>2, <2>1 DEF RoundsOK, RoundOK
    <3> QED BY <1>1, <1>2, <1>3, <2>1, <3>1 DEF RoundOK, Holds, Begun, Complete
  <2>2. CASE s # c.seq
    <3>1. s \in DOMAIN rounds /\ rounds'[s] = rounds[s] /\ RoundOK(s)
      BY <1>3, <2>2 DEF RoundsOK
    <3> QED BY <1>1, <3>1 DEF RoundOK, Holds, Begun, Complete
  <2> QED BY <2>1, <2>2
<1>6. next' > 0 => next' - 1 \in DOMAIN rounds'
  BY <1>1, <1>3 DEF RoundsOK
<1> QED BY <1>1, <1>4, <1>5, <1>6 DEF RoundsOK

LEMMA DecideStep ==
    ASSUME TransportInv, NEW c \in conns, ReadAccepted(c), NewlyDecided(c)
    PROVE  /\ next' = next + 1
           /\ \A r \in Ranks : next < Len(sent[r]) /\ sent[r][next + 1].phase = Stored(c).phase
           /\ decisions' = Append(decisions, [r \in Ranks |-> sent[r][next + 1]])
           /\ DOMAIN rounds' \subseteq Nat /\ \A s \in DOMAIN rounds' : rounds'[s] \in Round
           /\ RoundsOK'
<1> USE DEF TransportInv
<1> DEFINE all == Put(c.seq, Stored(c))
<1>1. /\ ~Rejected(c) /\ next' = next + 1 /\ sent' = sent
      /\ decisions' = Append(decisions, [r \in Ranks |->
                          [phase |-> Stored(c).phase, payload |-> Stored(c).members[r]]])
      /\ rounds' = Evict(all)
  BY DEF ReadAccepted
<1>2. /\ c.seq = next /\ next \in Nat /\ Stored(c) \in Round
      /\ Holds(next, Stored(c)) /\ Begun(Stored(c)) /\ Stored(c).decided /\ Complete(Stored(c).members)
  BY <1>1, StoredRound DEF TypeOK, NewlyDecided
<1>3. \A r \in Ranks : /\ next < Len(sent[r])
                       /\ sent[r][next + 1] = [phase |-> Stored(c).phase, payload |-> Stored(c).members[r]]
  BY <1>2 DEF Holds, Complete
<1>4. /\ DOMAIN all = DOMAIN rounds \cup {next} /\ all[next] = Stored(c)
      /\ \A s \in DOMAIN rounds : s # next => all[s] = rounds[s]
  BY <1>2 DEF Put
<1>5. /\ DOMAIN all \subseteq Nat /\ next \in DOMAIN all
      /\ \A s \in DOMAIN all : all[s] \in Round /\ s <= next /\ next <= s + 2
      /\ next > 0 => next - 1 \in DOMAIN all
  BY <1>2, <1>4 DEF TypeOK, RoundsOK, RoundOK
<1>6. /\ DOMAIN rounds' = {t \in DOMAIN all : next <= t + 1}
      /\ \A t \in DOMAIN rounds' : rounds'[t] = all[t]
  <2> HIDE DEF all
  <2> QED BY <1>1, <1>2, <1>5, Evicted
<1>7. DOMAIN rounds' \subseteq Nat /\ \A s \in DOMAIN rounds' : rounds'[s] \in Round
  BY <1>5, <1>6
<1>8. ASSUME NEW s \in DOMAIN rounds' PROVE RoundOK(s)'
  <2>1. CASE s = next
    <3>1. rounds'[s] = Stored(c)
      BY <1>4, <1>6, <2>1
    <3>2. s <= next' /\ next' <= s + 2 /\ s < next'
      BY <1>1, <1>2, <2>1
    <3> QED BY <1>1, <1>2, <2>1, <3>1, <3>2 DEF RoundOK, Holds, Begun, Complete
  <2>2. CASE s # next
    <3>1. s \in DOMAIN rounds /\ rounds'[s] = rounds[s] /\ RoundOK(s) /\ next <= s + 1 /\ s \in Nat
      BY <1>4, <1>5, <1>6, <2>2 DEF RoundsOK
    <3>2. s < next /\ rounds[s].decided
      BY <1>2, <2>2, <3>1 DEF RoundOK
    <3>3. s <= next' /\ next' <= s + 2 /\ s < next'
      BY <1>1, <1>2, <3>1, <3>2
    <3> QED BY <1>1, <3>1, <3>2, <3>3 DEF RoundOK, Holds, Begun, Complete
  <2> QED BY <2>1, <2>2
<1>9. next' > 0 => next' - 1 \in DOMAIN rounds'
  BY <1>1, <1>2, <1>5, <1>6
<1>10. decisions' = Append(decisions, [r \in Ranks |-> sent[r][next + 1]])
  BY <1>1, <1>3
<1>11. ASSUME NEW r \in Ranks
       PROVE  next < Len(sent[r]) /\ sent[r][next + 1].phase = Stored(c).phase
  <2>1. sent[r][next + 1] = [phase |-> Stored(c).phase, payload |-> Stored(c).members[r]]
    BY <1>3
  <2> QED BY <1>3, <2>1
<1> QED BY <1>1, <1>7, <1>8, <1>9, <1>10, <1>11 DEF RoundsOK

LEMMA ReadAcceptedInv ==
    ASSUME TransportInv, NEW c \in conns, ReadAccepted(c)
    PROVE  TransportInv'
<1> DEFINE n == [c EXCEPT !.state = IF fatal # "none" THEN "error" ELSE "parsed"]
<1> USE DEF TransportInv
<1>1. /\ c \in Conn /\ Carries(c) /\ conns' = (conns \ {c}) \cup {n} /\ next \in Nat
      /\ UNCHANGED <<sequence, message, broken, fatal, stopped, received, sent>>
  BY DEF ReadAccepted, TypeOK
<1>2. n \in Conn /\ n.rank = c.rank /\ n.live = c.live /\ n.state # "reply" /\ Carries(n)
  BY <1>1 DEF Conn, Carries
<1>3. conns' \subseteq Conn /\ OneLive'
  BY <1>1, <1>2, Restated
<1>4. /\ DOMAIN rounds' \subseteq Nat /\ \A s \in DOMAIN rounds' : rounds'[s] \in Round
      /\ RoundsOK' /\ next' \in {next, next + 1}
  <2>1. CASE NewlyDecided(c)
    BY <2>1, DecideStep, Zenon
  <2>2. CASE ~NewlyDecided(c)
    BY <2>2, StoreStep, Zenon
  <2> QED BY <2>1, <2>2
<1>5. TypeOK'
  <2>1. next' \in Nat
    BY <1>1, <1>4
  <2> QED BY <1>1, <1>3, <1>4, <2>1, Zenon DEF TypeOK
<1>6. /\ decisions' \in Seq([Ranks -> Bodies]) /\ Len(decisions') = next'
      /\ \A k \in 1..next : decisions'[k] = decisions[k]
      /\ \A k \in 1..next' : \A r \in Ranks : k <= Len(sent[r]) /\ decisions'[k][r] = sent[r][k]
  <2>1. CASE ~NewlyDecided(c)
    BY <2>1, StoreStep DEF HistoryOK, DecisionsOK
  <2>2. CASE NewlyDecided(c)
    <3> DEFINE new == [r \in Ranks |-> sent[r][next + 1]]
    <3>1. /\ next' = next + 1 /\ decisions' = Append(decisions, new)
          /\ \A r \in Ranks : next < Len(sent[r])
      BY <2>2, DecideStep
    <3>2. decisions \in Seq([Ranks -> Bodies]) /\ Len(decisions) = next
      BY DEF HistoryOK, DecisionsOK
    <3>3. new \in [Ranks -> Bodies]
      <4> SUFFICES ASSUME NEW r \in Ranks PROVE sent[r][next + 1] \in Bodies
        OBVIOUS
      <4>1. sent[r] \in Seq(Bodies) /\ next + 1 \in 1..Len(sent[r])
        BY <1>1, <3>1 DEF HistoryOK
      <4> QED BY <4>1
    <3>4. /\ decisions' \in Seq([Ranks -> Bodies]) /\ Len(decisions') = next + 1
          /\ decisions'[next + 1] = new
          /\ \A k \in 1..next : decisions'[k] = decisions[k]
      <4> HIDE DEF new
      <4> QED BY <3>1, <3>2, <3>3
    <3>5. ASSUME NEW k \in 1..next', NEW r \in Ranks
          PROVE  k <= Len(sent[r]) /\ decisions'[k][r] = sent[r][k]
      <4>1. CASE k = next + 1
        BY <1>1, <3>1, <3>4, <4>1 DEF HistoryOK
      <4>2. CASE k \in 1..next
        BY <3>4, <4>2 DEF DecisionsOK
      <4>3. k = next + 1 \/ k \in 1..next
        BY <1>1, <3>1
      <4> QED BY <4>1, <4>2, <4>3
    <3> QED BY <3>1, <3>4, <3>5
  <2> QED BY <2>1, <2>2
<1>7. HistoryOK' /\ FatalOK' /\ SentOnce' /\ DecisionsOK'
  BY <1>1, <1>6 DEF FatalOK, HistoryOK, SentOnce, DecisionsOK
<1>8. ReceivedOK'
  <2> SUFFICES ASSUME NEW r \in Ranks
               PROVE  /\ Len(received[r]) = sequence[r] /\ sequence[r] <= next'
                      /\ \A k \in 1..sequence[r] : received[r][k] = decisions'[k]
    BY <1>1 DEF ReceivedOK
  <2>1. /\ sequence[r] \in Nat /\ Len(received[r]) = sequence[r] /\ sequence[r] <= next
        /\ \A k \in 1..sequence[r] : received[r][k] = decisions[k]
    BY TransportAssumption DEF TypeOK, ReceivedOK
  <2> QED BY <1>1, <1>4, <1>6, <2>1
<1>9. \A d \in conns' : Carries(d)'
  <2> SUFFICES ASSUME NEW d \in conns' PROVE Carries(d)'
    OBVIOUS
  <2>1. Carries(d) /\ d.seq \in Nat
    BY <1>1, <1>2, <1>3 DEF Conn
  <2>2. d.state = "reply" => d.seq < next' /\ d.seq + 1 \in 1..next
    BY <1>1, <1>4, <2>1 DEF Carries
  <2> QED BY <1>1, <1>6, <2>1, <2>2 DEF Carries
<1> QED BY <1>3, <1>4, <1>5, <1>7, <1>8, <1>9

LEMMA NextInv == TransportInv /\ [Next]_vars => TransportInv'
<1> SUFFICES ASSUME TransportInv, [Next]_vars PROVE TransportInv'
  OBVIOUS
<1>1. CASE UNCHANGED vars
  BY <1>1, ConnsStep DEF vars, TransportInv, TypeOK, OneLive
<1>2. CASE Next
  BY <1>2, DestroyInv, GatherInv, ConnectInv, DeadlineExpiredInv, TrialTimeoutInv, LoseInv,
     ReadAcceptedInv, ReadRejectedInv, ServeInv, ReceiveInv, ReceiveErrorInv DEF Next
<1> QED BY <1>1, <1>2

-----------------------------------------------------------------------------
(* Theorems *)

(* The inductive invariant holds throughout: whatever lies in a connection, *)
(* a round, a decision or a result of gather() was really sent by its rank  *)
(* for that sequence number (control_transport.cc, Coordinator::request).   *)
THEOREM TransportInvariant == Spec => []TransportInv
BY InitInv, NextInv, PTL DEF Spec

(* Coordinator::request never forgets a decision that a rank may still ask  *)
(* for, never holds more than two decisions and an open round, and refuses  *)
(* a frame only for a real difference of phases or as a duplicate, no       *)
(* longer awaited, of an evicted round that every rank is past.             *)
THEOREM CoordinatorIsSafe == Spec => []CoordinatorSafe
<1>1. TransportInv => PoisonExplained
  BY InvExplained DEF PoisonExplained, TransportInv, FatalOK
<1>2. TransportInv => CoordinatorSafe
  BY <1>1, InvBounded, InvRetained DEF CoordinatorSafe, TransportInv
<1> QED BY <1>2, TransportInvariant, PTL

(* gather() returns the same all-rank decision to every rank, made of what  *)
(* each of them sent, under any loss, repetition and delay of connections.  *)
THEOREM RanksAgree == Spec => []Agreement
BY InvAgreement, TransportInvariant, PTL

LEMMA InitRefines == Init => GD!GInit
BY DEF Init, GD!GInit

LEMMA StepRefines == TransportInv /\ [Next]_vars => [GD!GNext]_GD!gvars
<1> SUFFICES ASSUME TransportInv, [Next]_vars PROVE [GD!GNext]_GD!gvars
  OBVIOUS
<1> USE DEF TransportInv
<1>1. CASE UNCHANGED <<sent, decisions, sequence, broken>>
  BY <1>1 DEF GD!gvars
<1>2. ASSUME NEW r \in Ranks, NEW b \in Bodies, Gather(r, b) PROVE GD!Submit(r, b)
  BY <1>2 DEF Gather, GD!Submit, SentOnce
<1>3. ASSUME NEW r \in Ranks, message[r] # None, broken' = broken \cup {r},
             UNCHANGED <<sequence, sent, decisions>>
      PROVE  GD!Break(r)
  <2>1. r \notin broken /\ Len(sent[r]) = sequence[r] + 1 /\ sequence[r] \in Nat
    BY <1>3, TransportAssumption DEF SentOnce, TypeOK
  <2> QED BY <1>3, <2>1 DEF GD!Break
<1>4. ASSUME NEW c \in conns, Receive(c) PROVE GD!Learn(c.rank) /\ c.rank \in Ranks
  <2>1. c \in Conn /\ Carries(c) /\ c.live /\ c.state = "reply"
    BY <1>4 DEF Receive, TypeOK
  <2>2. /\ c.rank \in Ranks /\ message[c.rank] # None /\ sequence[c.rank] < next
        /\ sequence[c.rank] \in Nat
    BY <2>1, TransportAssumption DEF Conn, Carries, TypeOK
  <2>3. c.rank \notin broken /\ Len(sent[c.rank]) = sequence[c.rank] + 1
    BY <2>2 DEF SentOnce
  <2> QED BY <1>4, <2>2, <2>3 DEF Receive, GD!Learn, DecisionsOK
<1>5. ASSUME NEW c \in conns, ReadAccepted(c), NewlyDecided(c) PROVE GD!Decide
  <2>1. Len(decisions) = next /\ next \in Nat
    BY DEF DecisionsOK, TypeOK
  <2>2. /\ \A r \in Ranks : next < Len(sent[r]) /\ sent[r][next + 1].phase = Stored(c).phase
        /\ decisions' = Append(decisions, [r \in Ranks |-> sent[r][next + 1]])
    BY <1>5, DecideStep
  <2> QED BY <1>5, <2>1, <2>2 DEF GD!Decide, ReadAccepted
<1>6. ASSUME NEW c \in conns, ReadAccepted(c), ~NewlyDecided(c)
      PROVE  UNCHANGED <<sent, decisions, sequence, broken>>
  BY <1>6 DEF ReadAccepted
<1>7. ASSUME NEW c \in conns, ReceiveError(c) PROVE GD!Break(c.rank) /\ c.rank \in Ranks
  <2>1. c.rank \in Ranks /\ message[c.rank] # None
    BY <1>7 DEF ReceiveError, TypeOK, Conn, Carries
  <2> QED BY <1>3, <1>7, <2>1 DEF ReceiveError, history
<1>8. ASSUME NEW r \in Ranks, DeadlineExpired(r) PROVE GD!Break(r)
  BY <1>3, <1>8 DEF DeadlineExpired, history
<1>9. ASSUME NEW r \in Ranks, Connect(r) PROVE UNCHANGED <<sent, decisions, sequence, broken>>
  BY <1>9 DEF Connect, history
<1>10. ASSUME NEW c \in conns, TrialTimeout(c) \/ Lose(c) \/ ReadRejected(c) \/ Serve(c)
       PROVE  UNCHANGED <<sent, decisions, sequence, broken>>
  BY <1>10 DEF TrialTimeout, Lose, ReadRejected, Serve, history
<1>11. CASE Destroy
  BY <1>1, <1>11 DEF Destroy, history
<1>12. CASE Next
  BY <1>1, <1>2, <1>4, <1>5, <1>6, <1>7, <1>8, <1>9, <1>10, <1>11, <1>12 DEF Next, GD!GNext
<1>13. CASE UNCHANGED vars
  BY <1>1, <1>13 DEF vars, history
<1> QED BY <1>12, <1>13

(* The transport implements GroupDecision: its sessions take the same       *)
(* sequence of all-rank decisions, however the connections fare.            *)
THEOREM TransportImplementsDecisions == Spec => RefinesGroupDecision
BY InitRefines, StepRefines, TransportInvariant, PTL DEF Spec, RefinesGroupDecision, GD!GSpec
=============================================================================
