-------------------------- MODULE ControlTransport --------------------------
(***************************************************************************)
(* The control plane of the native runtime                                 *)
(* (runtime/execution/control_transport.cc).  Rank 0 hosts a coordinator   *)
(* thread.  gather() sends the rank's message for its current sequence     *)
(* number over a new TCP connection, waits up to a quarter of a second for *)
(* the decision, and otherwise tries again with the same message on        *)
(* another connection until its deadline.                                  *)
(*                                                                         *)
(* A connection the rank has given up on still exists for the coordinator: *)
(* its bytes may be delivered at any later time, as TCP keeps              *)
(* retransmitting what a closed socket had sent.  Losing a connection      *)
(* stands for a refused or reset one, a full client table, the two-second  *)
(* client expiry and the drop injected by the tests.                       *)
(***************************************************************************)
EXTENDS Naturals, Sequences, FiniteSets

CONSTANTS
    Ranks,
    Host,        \* rank 0, whose process runs the coordinator
    Phases,      \* phase names
    Payloads,
    None,        \* a rank outside gather(); a member not yet received
    MaxSeq,      \* bound: gathers per rank
    Calls,       \* the bodies each rank may have for each sequence number
    MaxConns     \* bound: connections of one rank that exist at a time

ASSUME TransportAssumption ==
    /\ IsFiniteSet(Ranks) /\ Host \in Ranks
    /\ MaxSeq \in Nat /\ MaxConns \in Nat \ {0}

Bodies == [phase : Phases, payload : Payloads]
ASSUME BodyAssumption ==
    /\ None \notin Bodies /\ None \notin Payloads
    /\ Calls \in [Ranks -> [0..MaxSeq -> SUBSET Bodies]]

VARIABLES
    sequence,   \* rank -> sequence_
    message,    \* rank -> the body gather() is sending, or None
    broken,     \* the ranks with broken_
    conns,      \* connections, with their state in the coordinator
    rounds,     \* Coordinator::rounds
    next,       \* Coordinator::next
    fatal,      \* Coordinator::fatal: why request() threw, "none" while empty
    stopped,    \* the coordinator was destroyed
    received,   \* history: rank -> what its gathers returned
    sent,       \* history: rank -> the bodies it gathered with
    decisions   \* history: the replies of the rounds, in order

history == <<received, sent, decisions>>
coordinator == <<rounds, next, fatal, stopped>>
vars == <<sequence, message, broken, conns, coordinator, history>>

(* A connection: whether the rank still waits on it, and what became of it  *)
(* in the coordinator: its frame is not yet read, it was read (parsed), or  *)
(* it has its reply (outgoing): the members of the round, or the error.     *)
Conn == [rank : Ranks, seq : Nat, body : Bodies, live : BOOLEAN,
         state : {"unread", "parsed", "reply", "error"},
         members : [Ranks -> Payloads \cup {None}]]

Empty == [r \in Ranks |-> None]
Complete(members) == \A r \in Ranks : members[r] # None
Of(r) == {c \in conns : c.rank = r}
Live(r) == {c \in Of(r) : c.live}
-----------------------------------------------------------------------------
Init ==
    /\ sequence = [r \in Ranks |-> 0]
    /\ message = [r \in Ranks |-> None]
    /\ broken = {}
    /\ conns = {}
    /\ rounds = [s \in {} |-> None]
    /\ next = 0
    /\ fatal = "none"
    /\ stopped = FALSE
    /\ received = [r \in Ranks |-> <<>>]
    /\ sent = [r \in Ranks |-> <<>>]
    /\ decisions = <<>>

(* gather() is entered: the immutable message is built. *)
Gather(r, b) ==
    /\ message[r] = None
    /\ b \in Calls[r][sequence[r]]
    /\ r \notin broken
    /\ sequence[r] < MaxSeq
    /\ ~(r = Host /\ stopped)
    /\ message' = [message EXCEPT ![r] = b]
    /\ sent' = [sent EXCEPT ![r] = Append(@, b)]
    /\ UNCHANGED <<sequence, broken, conns, coordinator, received, decisions>>

(* One trial: connect and send. *)
Connect(r) ==
    /\ message[r] # None
    /\ Live(r) = {}
    /\ ~stopped
    /\ Cardinality(Of(r)) < MaxConns
    /\ conns' = conns \cup
           {[rank |-> r, seq |-> sequence[r], body |-> message[r],
             live |-> TRUE, state |-> "unread", members |-> Empty]}
    /\ UNCHANGED <<sequence, message, broken, coordinator, history>>

(* The trial's quarter of a second is over: the rank closes its socket. *)
TrialTimeout(c) ==
    /\ c \in conns /\ c.live
    /\ conns' = (conns \ {c}) \cup {[c EXCEPT !.live = FALSE]}
    /\ UNCHANGED <<sequence, message, broken, coordinator, history>>

Lose(c) ==
    /\ c \in conns
    /\ conns' = conns \ {c}
    /\ UNCHANGED <<sequence, message, broken, coordinator, history>>

(* Without the comparison of a duplicate with what was stored first. *)
MutantRejected(c) ==
    \/ c.seq > next
    \/ c.seq < next /\ c.seq \notin DOMAIN rounds

(* The checks of Coordinator::request that throw.  The first is the test of *)
(* the retained decision boundary; a missing round is created by the caller.*)
Rejected(c) ==
    \/ c.seq > next
    \/ c.seq < next /\ c.seq \notin DOMAIN rounds
    \/ /\ c.seq \in DOMAIN rounds
       /\ \/ rounds[c.seq].phase # c.body.phase
          \/ /\ rounds[c.seq].members[c.rank] # None
             /\ rounds[c.seq].members[c.rank] # c.body.payload

(* Which of them it is: what() of the exception, the two sides of the       *)
(* decision boundary told apart.                                            *)
Reason(c) ==
    IF c.seq > next THEN "ahead"
    ELSE IF c.seq < next /\ c.seq \notin DOMAIN rounds THEN "evicted"
    ELSE IF c.seq \in DOMAIN rounds /\ rounds[c.seq].phase # c.body.phase THEN "phase"
    ELSE "contents"

RoundOf(c) == IF c.seq \in DOMAIN rounds THEN rounds[c.seq]
              ELSE [phase |-> c.body.phase, members |-> Empty, decided |-> FALSE]

(* The round after member c.rank is stored, decided if it was the last. *)
Stored(c) ==
    LET members == [RoundOf(c).members EXCEPT ![c.rank] =
                        IF @ = None THEN c.body.payload ELSE @]
    IN  [phase |-> RoundOf(c).phase, members |-> members,
         decided |-> RoundOf(c).decided \/ Complete(members)]

Put(s, round) ==
    [t \in DOMAIN rounds \cup {s} |-> IF t = s THEN round ELSE rounds[t]]

(* A decision that is forgotten as soon as it is taken. *)
MutantRetain == 0

(* while(rounds.size()>2) rounds.erase(rounds.begin()) *)
Retain == 2
Evict(f) ==
    LET kept == {s \in DOMAIN f : Cardinality({t \in DOMAIN f : t > s}) < Retain}
    IN  [s \in kept |-> f[s]]

NewlyDecided(c) == Stored(c).decided /\ ~RoundOf(c).decided

(* The coordinator reads the frame of c and calls request(). *)
ReadAccepted(c) ==
    /\ c \in conns /\ c.state = "unread" /\ ~stopped
    /\ ~Rejected(c)
    /\ LET all == Put(c.seq, Stored(c))
       IN  rounds' = IF NewlyDecided(c) THEN Evict(all) ELSE all
    /\ next' = IF NewlyDecided(c) THEN next + 1 ELSE next
    /\ decisions' = IF NewlyDecided(c)
                    THEN Append(decisions, [r \in Ranks |->
                             [phase |-> Stored(c).phase,
                              payload |-> Stored(c).members[r]]])
                    ELSE decisions
    /\ conns' = (conns \ {c}) \cup
           {[c EXCEPT !.state = IF fatal # "none" THEN "error" ELSE "parsed"]}
    /\ UNCHANGED <<sequence, message, broken, fatal, stopped, received, sent>>

(* request() throws: the error poisons every client that has no reply yet. *)
ReadRejected(c) ==
    /\ c \in conns /\ c.state = "unread" /\ ~stopped
    /\ Rejected(c)
    /\ fatal' = Reason(c)
    /\ conns' = (conns \ {c}) \cup {[c EXCEPT !.state = "error"]}
    /\ UNCHANGED <<sequence, message, broken, rounds, next, stopped, history>>

(* A coordinator that answers with any decision it still has, or that       *)
(* takes every decided round for a forgotten one.                           *)
MutantServeAny(c) ==
    /\ c \in conns /\ ~stopped /\ c.state = "parsed"
    /\ \E s \in DOMAIN rounds :
           /\ rounds[s].decided
           /\ conns' = (conns \ {c}) \cup
                  {[c EXCEPT !.state = "reply", !.members = rounds[s].members]}
    /\ UNCHANGED <<sequence, message, broken, coordinator, history>>
MutantServeDrops(c) ==
    /\ c \in conns /\ ~stopped
    /\ \/ /\ fatal # "none" /\ c.state \in {"unread", "parsed"}
          /\ conns' = (conns \ {c}) \cup {[c EXCEPT !.state = "error"]}
       \/ /\ fatal = "none" /\ c.state = "parsed" /\ c.seq < next
          /\ conns' = conns \ {c}
    /\ UNCHANGED <<sequence, message, broken, coordinator, history>>

(* The loop reaches a client without a reply: after an error each of them   *)
(* gets it, whether or not its frame has come; otherwise a parsed one gets  *)
(* the decision of its round, or is dropped if the round is forgotten.      *)
Serve(c) ==
    /\ c \in conns /\ ~stopped
    /\ \/ /\ fatal # "none" /\ c.state \in {"unread", "parsed"}
          /\ conns' = (conns \ {c}) \cup {[c EXCEPT !.state = "error"]}
       \/ /\ fatal = "none" /\ c.state = "parsed" /\ c.seq \notin DOMAIN rounds
          /\ conns' = conns \ {c}
       \/ /\ fatal = "none" /\ c.state = "parsed"
          /\ c.seq \in DOMAIN rounds /\ rounds[c.seq].decided
          /\ conns' = (conns \ {c}) \cup
                 {[c EXCEPT !.state = "reply", !.members = rounds[c.seq].members]}
    /\ UNCHANGED <<sequence, message, broken, coordinator, history>>

(* The reply has the sequence number and phase of the message gather() sent;*)
(* the coordinator fills them in from the round of the connection.          *)
Matches(c) == /\ c.seq = sequence[c.rank]
              /\ c.body.phase = message[c.rank].phase

(* receive_json returns the decision: gather() succeeds. *)
Receive(c) ==
    /\ c \in conns /\ c.live /\ c.state = "reply"
    /\ Matches(c)
    /\ sequence' = [sequence EXCEPT ![c.rank] = @ + 1]
    /\ message' = [message EXCEPT ![c.rank] = None]
    /\ received' = [received EXCEPT ![c.rank] =
                        Append(@, [r \in Ranks |->
                            [phase |-> c.body.phase, payload |-> c.members[r]]])]
    /\ conns' = conns \ {c}
    /\ UNCHANGED <<broken, coordinator, sent, decisions>>

(* receive_json returns an error, or a reply of another identity: the       *)
(* session is broken for good.                                              *)
ReceiveError(c) ==
    /\ c \in conns /\ c.live /\ c.state \in {"reply", "error"}
    /\ c.state = "reply" => ~Matches(c)
    /\ broken' = broken \cup {c.rank}
    /\ message' = [message EXCEPT ![c.rank] = None]
    /\ conns' = conns \ {c}
    /\ UNCHANGED <<sequence, coordinator, history>>

(* The deadline of gather() passes: the outcome is unresolved. *)
DeadlineExpired(r) ==
    /\ message[r] # None
    /\ broken' = broken \cup {r}
    /\ message' = [message EXCEPT ![r] = None]
    /\ conns' = (conns \ Live(r)) \cup {[c EXCEPT !.live = FALSE] : c \in Live(r)}
    /\ UNCHANGED <<sequence, coordinator, history>>

(* vericcl_destroy on the host ends the coordinator; it takes no part in    *)
(* any gather, and asks nobody.                                             *)
Destroy ==
    /\ ~stopped
    /\ message[Host] = None
    /\ stopped' = TRUE
    /\ conns' = {}
    /\ UNCHANGED <<sequence, message, broken, rounds, next, fatal, history>>

Next ==
    \/ Destroy
    \/ \E r \in Ranks, b \in Bodies : Gather(r, b)
    \/ \E r \in Ranks : Connect(r) \/ DeadlineExpired(r)
    \/ \E c \in conns : \/ TrialTimeout(c)
                        \/ Lose(c)
                        \/ ReadAccepted(c)
                        \/ ReadRejected(c)
                        \/ Serve(c)
                        \/ Receive(c)
                        \/ ReceiveError(c)

Spec == Init /\ [][Next]_vars

(* The group keeps gathering, each rank keeps trying, client expiry removes *)
(* dead connections, and a network that is used again and again sometimes   *)
(* lets a frame, a service and a reply through before the trial times out.  *)
(* Nothing makes a deadline expire.                                         *)
LiveSpec ==
    /\ Spec
    /\ \A r \in Ranks :
           /\ WF_vars(\E b \in Bodies : Gather(r, b))
           /\ WF_vars(Connect(r))
           /\ WF_vars(\E c \in Of(r) : ~c.live /\ Lose(c))
           /\ SF_vars(\E c \in Live(r) : ReadAccepted(c) \/ ReadRejected(c))
           /\ SF_vars(\E c \in Live(r) : Serve(c))
           /\ SF_vars(\E c \in Live(r) : Receive(c) \/ ReceiveError(c))
-----------------------------------------------------------------------------
Round == [phase : Phases, members : [Ranks -> Payloads \cup {None}],
          decided : BOOLEAN]

(* Every variable has its type. *)
TypeOK ==
    /\ sequence \in [Ranks -> 0..MaxSeq]
    /\ message \in [Ranks -> Bodies \cup {None}]
    /\ broken \subseteq Ranks
    /\ conns \subseteq Conn
    /\ next \in Nat
    /\ DOMAIN rounds \subseteq Nat
    /\ \A s \in DOMAIN rounds : rounds[s] \in Round
    /\ fatal \in {"none", "ahead", "evicted", "phase", "contents"}
    /\ stopped \in BOOLEAN

(* All ranks are told the same decision for the same sequence number, and   *)
(* it holds what each of them really sent, however often connections are    *)
(* lost, repeated or delivered late.                                        *)
Agreement ==
    \A r \in Ranks : \A k \in 1..Len(received[r]) :
        /\ \A q \in Ranks : k <= Len(sent[q]) /\ received[r][k][q] = sent[q][k]
        /\ \A q \in Ranks : k <= Len(received[q])
                                => received[q][k] = received[r][k]

(* No rank is more than one decision behind, and the decision it is behind  *)
(* with is still retained: eviction never forgets an answer somebody needs. *)
RetainedUntilAdvanced ==
    \A r \in Ranks :
        /\ sequence[r] <= next /\ next <= sequence[r] + 1
        /\ sequence[r] < next =>
               sequence[r] \in DOMAIN rounds /\ rounds[sequence[r]].decided

(* The coordinator's memory is bounded: two decisions and an open round. *)
BoundedRounds ==
    LET open == {s \in DOMAIN rounds : ~rounds[s].decided}
    IN  Cardinality(open) <= 1 /\ Cardinality(DOMAIN rounds \ open) <= 2

(* What can poison the group.  A frame is refused only because two ranks    *)
(* really are in different phases, or because it is a late duplicate, which *)
(* nobody waits for, of an evicted round that all ranks are past.  No       *)
(* duplicate ever differs from the original, and no frame is ahead.  The    *)
(* comment at the reply ("must not poison the current group") wants the     *)
(* second case to be harmless; request() throws on it all the same.         *)
PoisonExplained ==
    /\ fatal \in {"none", "phase", "evicted"}
    /\ \A c \in conns : c.state = "unread" /\ Rejected(c) =>
           \/ /\ Reason(c) = "evicted"
              /\ ~c.live /\ \A r \in Ranks : c.seq < sequence[r]
           \/ /\ Reason(c) = "phase"
              /\ \E q, r \in Ranks :
                     /\ c.seq < Len(sent[q]) /\ c.seq < Len(sent[r])
                     /\ sent[q][c.seq + 1].phase # sent[r][c.seq + 1].phase

(* The coordinator keeps what a slow rank still asks for and nothing more:  *)
(* eviction after a decision is neither too early nor too late, and what    *)
(* request() refuses is a real disagreement or a duplicate of a round that  *)
(* everybody is past.                                                       *)
CoordinatorSafe ==
    TypeOK /\ RetainedUntilAdvanced /\ BoundedRounds /\ PoisonExplained

(* The transport implements the decision sequence its callers rely on. *)
GD == INSTANCE GroupDecision WITH submitted <- sent, learned <- sequence,
                                  unresolved <- broken
RefinesGroupDecision == GD!GSpec

(* Retransmission gets the whole group through all its gathers, unless some *)
(* rank gives up, the host destroys its context, two ranks are in different *)
(* phases, or a duplicate is read so late that its round was evicted: the   *)
(* coordinator then refuses it and fails every rank.                        *)
GroupAdvances ==
    <>(\/ \A r \in Ranks : sequence[r] = MaxSeq
       \/ broken # {} \/ stopped
       \/ fatal \in {"phase", "evicted"})
=============================================================================
