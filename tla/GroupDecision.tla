--------------------------- MODULE GroupDecision ---------------------------
(***************************************************************************)
(* What ControlTransport::gather promises its callers in api.cc and        *)
(* driver.cc: the ranks of a group take the same sequence of all-rank      *)
(* decisions.  Decision k exists once every rank has submitted its k-th    *)
(* body, all for the same phase, and holds exactly these bodies; a rank    *)
(* learns the decisions in order; a rank whose outcome is unresolved       *)
(* learns nothing any more.                                                *)
(***************************************************************************)
EXTENDS Naturals, Sequences

CONSTANTS Ranks, Bodies,  \* a body is a record with a phase
          MaxSeq

VARIABLES
    submitted,   \* rank -> the bodies it submitted
    decisions,   \* the decisions taken, each a function of the ranks
    learned,     \* rank -> number of decisions gather returned to it
    unresolved   \* ranks whose session is broken

gvars == <<submitted, decisions, learned, unresolved>>

GInit ==
    /\ submitted = [r \in Ranks |-> <<>>]
    /\ decisions = <<>>
    /\ learned = [r \in Ranks |-> 0]
    /\ unresolved = {}

Submit(r, b) ==
    /\ r \notin unresolved
    /\ Len(submitted[r]) = learned[r]
    /\ Len(submitted[r]) < MaxSeq
    /\ submitted' = [submitted EXCEPT ![r] = Append(@, b)]
    /\ UNCHANGED <<decisions, learned, unresolved>>

Decide ==
    /\ \A r \in Ranks : Len(submitted[r]) > Len(decisions)
    /\ \A r, q \in Ranks : submitted[r][Len(decisions) + 1].phase
                             = submitted[q][Len(decisions) + 1].phase
    /\ decisions' = Append(decisions,
           [r \in Ranks |-> submitted[r][Len(decisions) + 1]])
    /\ UNCHANGED <<submitted, learned, unresolved>>

Learn(r) ==
    /\ r \notin unresolved
    /\ learned[r] < Len(submitted[r])
    /\ learned[r] < Len(decisions)
    /\ learned' = [learned EXCEPT ![r] = @ + 1]
    /\ UNCHANGED <<submitted, decisions, unresolved>>

Break(r) ==
    /\ r \notin unresolved
    /\ learned[r] < Len(submitted[r])
    /\ unresolved' = unresolved \cup {r}
    /\ UNCHANGED <<submitted, decisions, learned>>

GNext == \/ \E r \in Ranks, b \in Bodies : Submit(r, b)
         \/ Decide
         \/ \E r \in Ranks : Learn(r) \/ Break(r)

GSpec == GInit /\ [][GNext]_gvars
=============================================================================
