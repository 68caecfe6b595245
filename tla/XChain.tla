-------------------------------- MODULE XChain --------------------------------
(***************************************************************************)
(* A user joins a space whose roles are checked on other chains: joinSpace *)
(* of MembershipFacet.sol asks some xchain nodes per role, the nodes       *)
(* (core/xchain/server/server.go) evaluate the rule and post a vote, and   *)
(* EntitlementGatedBase.sol counts the votes, issues or rejects the token  *)
(* and forgets the transaction.                                            *)
(*                                                                         *)
(* One transaction id is modelled: joinSpace makes a new one for every     *)
(* call.  Fees are part of the price; the channels of a node (256 and 128  *)
(* slots) do not fill with the votes of one join.                          *)
(***************************************************************************)
EXTENDS Integers, Sequences, FiniteSets

CONSTANTS Role, Verifier,   \* role ids, registered xchain nodes
          Sample,           \* the nodes per check: 5 in EntitlementGatedBase
          JoinBounds

Local == {"entitled", "notEntitled"}
Vote == {"NOT_VOTED", "PASSED", "FAILED"}

JoinBound ==
  [entitlements : Seq(Role \cup Local),  \* of the roles that may join, in order
   draw : [Role -> SUBSET Verifier],     \* the random nodes that are asked per role
   paid : Nat, price : Nat,              \* msg.value, and the price of a token
   raises : Nat,                         \* how often the price goes up
   changes : Nat,                        \* changes of what a rule evaluates to
   errors : Nat,                         \* votes that a node fails to make or to send
   restarts : Nat, history : BOOLEAN]    \* of nodes, which look back at the requests

ASSUME JoinAssumption ==
  /\ JoinBounds \subseteq JoinBound /\ IsFiniteSet(Verifier) /\ Role \cap Local = {}
  /\ \A b \in JoinBounds, r \in Role : Cardinality(b.draw[r]) = Sample

VARIABLES joining,          \* "not", "joined" or "reverted"
          hasBenSet,        \* a check of the transaction is registered
          nodeVotes,        \* nodeVotesArray: the votes by role and node
          isCompleted,      \* the completed roles
          capturedData, capturedValue,
          checkRequests,    \* the EntitlementCheckRequested logs, by entitlement
          lastRead,         \* per node: the last request that it has got
          receipts,         \* per node: results to post
          posted,           \* per node: transactions that are not mined
          entitled,         \* per role: what its rule evaluates to
          membershipPrice,
          issued, rejected, \* MembershipTokenIssued and MembershipTokenRejected
          refunded,         \* what _refundBalance has paid back
          results,          \* history: the role and status of EntitlementCheckResultPosted
          cast,             \* history: the votes that were accepted, with role and node
          joinChanges, joinRaises, joinErrors, joinRestarts, joinBound

checkVars == <<hasBenSet, nodeVotes, isCompleted>>
tokenVars == <<capturedData, capturedValue, issued, rejected, refunded>>
contractVars == <<joining, checkVars, tokenVars, checkRequests, results, cast>>
verifierVars == <<lastRead, receipts, posted>>
worldVars == <<entitled, membershipPrice, joinChanges, joinRaises, joinErrors, joinRestarts>>
joinVars == <<contractVars, verifierVars, worldVars>>

\* The entitlements that joinSpace gets to: up to the first local one that passes.
Reached ==
  LET e == joinBound.entitlements
      reached == {i \in 1..Len(e) : \A j \in 1..(i - 1) : e[j] # "entitled"}
  IN  SubSeq(e, 1, Cardinality(reached))

\* Those that it asks nodes about, and their roles.
Asked == {i \in DOMAIN Reached : Reached[i] \in Role}
AskedRoles == {Reached[i] : i \in Asked}

PassesHere == \E i \in DOMAIN Reached : Reached[i] = "entitled"

NoVotes == [p \in {} |-> "NOT_VOTED"]

JoinInit ==
  /\ joinBound \in JoinBounds
  /\ joining = "not" /\ hasBenSet = FALSE
  /\ nodeVotes = NoVotes /\ isCompleted = {} /\ capturedData = FALSE /\ capturedValue = 0
  /\ checkRequests = [i \in {} |-> {}] /\ results = <<>> /\ cast = {}
  /\ lastRead = [n \in Verifier |-> 0] /\ receipts = [n \in Verifier |-> <<>>]
  /\ posted = [n \in Verifier |-> <<>>]
  /\ entitled \in [Role -> BOOLEAN] /\ (\A r \in Role \ AskedRoles : entitled[r])
  /\ membershipPrice = joinBound.price
  /\ issued = 0 /\ rejected = 0 /\ refunded = 0
  /\ joinChanges = 0 /\ joinRaises = 0 /\ joinErrors = 0 /\ joinRestarts = 0

(***************************************************************************)
(* The contract.                                                           *)
(***************************************************************************)

\* _issueToken for a transaction with this data and value does not revert.
CanIssue(data, value) == data /\ membershipPrice <= value

IssueToken(value) ==
  /\ issued' = issued + 1 /\ capturedValue' = value - membershipPrice
  /\ capturedData' = (membershipPrice = 0)
  /\ UNCHANGED <<rejected, refunded>>

Reverts == (\E i, j \in Asked : i # j /\ Reached[i] = Reached[j]) \/ (PassesHere /\ ~CanIssue(TRUE, joinBound.paid))

\* The user calls joinSpace.
JoinSpace ==
  /\ joining = "not" /\ joining' = IF Reverts THEN "reverted" ELSE "joined"
  /\ UNCHANGED <<isCompleted, results, cast, verifierVars, worldVars>>
  /\ IF Reverts
     THEN UNCHANGED <<hasBenSet, nodeVotes, tokenVars, checkRequests>>
     ELSE /\ hasBenSet' = (Asked # {})
          /\ nodeVotes' = [p \in {q \in Role \X Verifier : q[1] \in AskedRoles /\ q[2] \in joinBound.draw[q[1]]}
                             |-> "NOT_VOTED"]
          /\ checkRequests' = [i \in Asked |-> [role |-> Reached[i], nodes |-> joinBound.draw[Reached[i]]]]
          /\ IF PassesHere THEN IssueToken(joinBound.paid)
             ELSE IF Asked = {} /\ Reached # <<>>
             THEN /\ capturedData' = FALSE /\ capturedValue' = 0 /\ rejected' = rejected + 1
                  /\ UNCHANGED <<issued, refunded>>
             ELSE /\ capturedData' = TRUE /\ capturedValue' = joinBound.paid
                  /\ UNCHANGED <<issued, rejected, refunded>>

\* The part of a rejection in _onEntitlementCheckResultPosted.
Reject ==
  /\ rejected' = rejected + 1 /\ capturedData' = FALSE
  /\ capturedValue' = 0 /\ refunded' = refunded + capturedValue
  /\ UNCHANGED issued

RemoveTransaction_OneRole(r) ==
  /\ nodeVotes' = [p \in {q \in DOMAIN nodeVotes : q[1] # r} |-> nodeVotes[p]]
  /\ UNCHANGED hasBenSet

\* _removeTransaction: all roles are forgotten; isCompleted is not.
RemoveTransaction(r) == nodeVotes' = NoVotes /\ hasBenSet' = FALSE

Selected(r) == {n \in Verifier : <<r, n>> \in DOMAIN nodeVotes}

Count(r, votes, vote) == Cardinality({n \in Selected(r) : votes[<<r, n>>] = vote})

\* More than half of the nodes that were asked have this vote.
Reaches(r, votes, vote) == Count(r, votes, vote) > Cardinality(Selected(r)) \div 2

CanVote_Again(n, r) == hasBenSet /\ r \notin isCompleted /\ n \in Selected(r)

\* The checks of _postEntitlementCheckResult that revert otherwise.
CanVote(n, r) ==
  hasBenSet /\ r \notin isCompleted /\ n \in Selected(r) /\ nodeVotes[<<r, n>>] = "NOT_VOTED"

\* What a vote v of n, which is not reverted, does.
AcceptVote(n, r, v) ==
  LET votes == [nodeVotes EXCEPT ![<<r, n>>] = v]
      status == IF Count(r, votes, "PASSED") > Count(r, votes, "FAILED") THEN "PASSED" ELSE "FAILED"
      completed == Reaches(r, votes, "PASSED") \/ Reaches(r, votes, "FAILED")
  IN  /\ cast' = cast \cup {<<r, n, v>>}
      /\ IF completed
         THEN /\ IF status = "PASSED" THEN CanIssue(capturedData, capturedValue) /\ IssueToken(capturedValue)
                                      ELSE capturedData /\ Reject
              /\ isCompleted' = isCompleted \cup {r} /\ results' = Append(results, [role |-> r, status |-> status])
              /\ RemoveTransaction(r)
         ELSE /\ nodeVotes' = votes
              /\ UNCHANGED <<tokenVars, isCompleted, results, hasBenSet>>

\* The vote is reverted: by CanVote, or because the token cannot be issued or rejected.
VoteReverts(n, r, v) ==
  LET votes == [nodeVotes EXCEPT ![<<r, n>>] = v]
  IN  \/ ~CanVote(n, r)
      \/ Reaches(r, votes, "PASSED") /\ ~CanIssue(capturedData, capturedValue)
      \/ Reaches(r, votes, "FAILED") /\ ~capturedData

(***************************************************************************)
(* The nodes.                                                              *)
(***************************************************************************)

\* A result that is not made or not sent.
VoteFails == joinErrors < joinBound.errors /\ joinErrors' = joinErrors + 1

Outcome(r) == IF entitled[r] THEN "PASSED" ELSE "FAILED"

NotYetRead(n) == {i \in DOMAIN checkRequests : i > lastRead[n]}

\* handleEntitlementCheckRequest: getRuleData fails once the transaction is removed.
HandleRequest(n, q) ==
  \/ /\ n \in q.nodes /\ hasBenSet
     /\ receipts' = [receipts EXCEPT ![n] = Append(@, [role |-> q.role, vote |-> Outcome(q.role)])]
     /\ UNCHANGED joinErrors
  \/ (n \notin q.nodes \/ ~hasBenSet) /\ UNCHANGED <<receipts, joinErrors>>
  \/ n \in q.nodes /\ hasBenSet /\ VoteFails /\ UNCHANGED receipts

OnEntitlementCheckRequested(n) ==
  \E i \in NotYetRead(n) :
    /\ \A j \in NotYetRead(n) : i <= j
    /\ lastRead' = [lastRead EXCEPT ![n] = i] /\ HandleRequest(n, checkRequests[i])
    /\ UNCHANGED <<contractVars, posted, entitled, membershipPrice, joinChanges, joinRaises, joinRestarts>>

\* writeEntitlementCheckResults: Submit may refuse a transaction that reverts.
WriteEntitlementCheckResult(n) ==
  /\ receipts[n] # <<>> /\ receipts' = [receipts EXCEPT ![n] = Tail(@)]
  /\ UNCHANGED <<contractVars, lastRead, entitled, membershipPrice, joinChanges, joinRaises, joinRestarts>>
  /\ LET receipt == Head(receipts[n])
     IN  \/ posted' = [posted EXCEPT ![n] = Append(@, receipt)] /\ UNCHANGED joinErrors
         \/ VoteReverts(n, receipt.role, receipt.vote) /\ UNCHANGED <<posted, joinErrors>>
         \/ VoteFails /\ UNCHANGED posted

\* The transaction of a node is mined; a node's transactions are mined in order.
MinePosted(n) ==
  /\ posted[n] # <<>> /\ posted' = [posted EXCEPT ![n] = Tail(@)]
  /\ UNCHANGED <<joining, checkRequests, lastRead, receipts, worldVars>>
  /\ LET p == Head(posted[n])
     IN  IF VoteReverts(n, p.role, p.vote)
         THEN UNCHANGED <<checkVars, tokenVars, results, cast>>
         ELSE AcceptVote(n, p.role, p.vote)

\* The last request so far.
LastRequest ==
  CHOOSE i \in DOMAIN checkRequests \cup {0} : \A j \in DOMAIN checkRequests : j <= i

ReplayFrom_Now == LastRequest

\* A new process reads the requests that come after this one.
ReplayFrom == IF joinBound.history THEN 0 ELSE LastRequest

\* Run ends, with receipts that are not posted; the next process reads the requests of
\* the last config.History again, or none.
RestartNode(n) ==
  /\ joinRestarts < joinBound.restarts /\ joinRestarts' = joinRestarts + 1
  /\ receipts' = [receipts EXCEPT ![n] = <<>>]
  /\ lastRead' = [lastRead EXCEPT ![n] = ReplayFrom]
  /\ UNCHANGED <<contractVars, posted, entitled, membershipPrice, joinChanges, joinRaises, joinErrors>>

(***************************************************************************)
(* The other chains, and other members.                                    *)
(***************************************************************************)

ChangeEntitled(r) ==
  /\ joinChanges < joinBound.changes /\ joinChanges' = joinChanges + 1
  /\ entitled' = [entitled EXCEPT ![r] = ~@]
  /\ UNCHANGED <<contractVars, verifierVars, membershipPrice, joinRaises, joinErrors, joinRestarts>>

RaisePrice ==
  /\ joinRaises < joinBound.raises /\ joinRaises' = joinRaises + 1
  /\ membershipPrice' = membershipPrice + 1
  /\ UNCHANGED <<contractVars, verifierVars, entitled, joinChanges, joinErrors, joinRestarts>>

JoinNext ==
  /\ \/ JoinSpace
     \/ \E n \in Verifier : OnEntitlementCheckRequested(n) \/ WriteEntitlementCheckResult(n)
                              \/ MinePosted(n) \/ RestartNode(n)
     \/ \E r \in Role : ChangeEntitled(r)
     \/ RaisePrice
  /\ UNCHANGED joinBound

JoinSpec == JoinInit /\ [][JoinNext]_<<joinVars, joinBound>>

\* The goroutines of a node run, and its transactions are mined.
JoinFairness ==
  \A n \in Verifier : /\ WF_<<joinVars, joinBound>>(OnEntitlementCheckRequested(n) /\ UNCHANGED joinBound)
                      /\ WF_<<joinVars, joinBound>>(WriteEntitlementCheckResult(n) /\ UNCHANGED joinBound)
                      /\ WF_<<joinVars, joinBound>>(MinePosted(n) /\ UNCHANGED joinBound)

(***************************************************************************)
(* Properties.                                                             *)
(***************************************************************************)

Receipt == [role : Role, vote : {"PASSED", "FAILED"}]

\* The votes of a transaction that is registered are those that were accepted, of nodes
\* that were asked, and no result has been posted for it.
VotesAreCast ==
  hasBenSet =>
    /\ results = <<>>
    /\ \A r \in Role, n \in Verifier : <<r, n>> \in DOMAIN nodeVotes =>
         /\ \E k \in DOMAIN checkRequests : checkRequests[k].role = r /\ checkRequests[k].nodes = Selected(r)
         /\ \A v \in Vote : <<r, n, v>> \in cast <=> (v = nodeVotes[<<r, n>>] /\ v # "NOT_VOTED")

\* The nodes asked by request k whose only vote on its role is v.
Backers(k, v) ==
  {n \in checkRequests[k].nodes : \A w \in Vote : <<checkRequests[k].role, n, w>> \in cast <=> w = v}

\* A join is decided once, although several roles may be checked at the same time, nodes
\* restart, answer requests again and answer late; and by more than half of the nodes that
\* were asked about one role, each of which has voted once.
MajorityDecides ==
  /\ Len(results) <= 1
  /\ \A i \in DOMAIN results : \E k \in DOMAIN checkRequests :
       /\ checkRequests[k].role = results[i].role
       /\ Cardinality(Backers(k, results[i].status)) > Cardinality(checkRequests[k].nodes) \div 2

\* What keeps MajorityDecides: who has voted what is known until the transaction is removed,
\* and a transaction that has been removed is not registered again.
JoinInv ==
  /\ joinBound \in JoinBounds /\ hasBenSet \in BOOLEAN
  /\ receipts \in [Verifier -> Seq(Receipt)] /\ posted \in [Verifier -> Seq(Receipt)]
  /\ DOMAIN nodeVotes \subseteq Role \X Verifier /\ (\A p \in DOMAIN nodeVotes : nodeVotes[p] \in Vote)
  /\ \A k \in DOMAIN checkRequests : checkRequests[k].role \in Role
  /\ joining = "not" => ~hasBenSet /\ results = <<>> /\ cast = {}
  /\ VotesAreCast /\ MajorityDecides

\* A local entitlement that passes comes after one that asks nodes: the token is issued
\* and the check goes on.
LocalAfterRequest == PassesHere /\ Asked # {}

\* A join ends in a token or a rejection and not in both, the one that the nodes' result says;
\* nothing is paid back to a user who has the token; and after a rejection by the nodes all that
\* the user has paid is paid back (_onEntitlementCheckResultPosted, _refundBalance).  Nothing is
\* said of the payment of a join that joinSpace itself rejects, which asks no nodes: it forgets
\* the captured value and transfers nothing (MembershipFacet.sol:135-140).
TokenOrRefund ==
  ~LocalAfterRequest =>
    /\ issued + rejected <= 1
    /\ results # <<>> => /\ issued = 1 <=> results[1].status = "PASSED"
                         /\ rejected = 1 <=> results[1].status = "FAILED"
    /\ refunded # 0 => rejected = 1
    /\ (rejected = 1 /\ Asked # {}) => refunded = joinBound.paid /\ capturedValue = 0

\* What keeps TokenOrRefund: while the check is registered nothing is issued, rejected or paid
\* back, and all that the user has paid is captured.
TokenInv ==
  ~LocalAfterRequest =>
    /\ joining = "not" => results = <<>>
    /\ joining = "not" \/ hasBenSet => issued = 0 /\ rejected = 0 /\ refunded = 0
    /\ hasBenSet => capturedValue = joinBound.paid
    /\ TokenOrRefund

MinorityFails == joinBound.errors <= (Sample - 1) \div 2

\* A join that is not reverted is answered, if a minority of the nodes that it asks fails,
\* no rule changes its answer meanwhile, the price stays what was paid and nodes that restart
\* look back.
JoinAnswered ==
  (joining = "joined" /\ joinBound.entitlements # <<>> /\ MinorityFails /\ joinBound.changes = 0
     /\ joinBound.raises = 0 /\ joinBound.history /\ membershipPrice <= joinBound.paid)
  ~> (issued + rejected >= 1)
=============================================================================
