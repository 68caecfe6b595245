----------------------------- MODULE QuorumProofs -----------------------------
(***************************************************************************)
(* The parts that ask several nodes: the vote of the nodes on a join, the  *)
(* quorum of a replicated call, and the choice of a node that answers for  *)
(* a stream.                                                               *)
(***************************************************************************)
EXTENDS XChain, Replication, PeerRequests, FiniteSetTheorems, TLAPS

(***************************************************************************)
(* A majority of the nodes that are asked about a role decides a join, and *)
(* only once, for every set of nodes and roles and every sample of nodes.  *)
(***************************************************************************)
LEMMA InitJoinInv ==
  JoinInit => JoinInv
<1> SUFFICES ASSUME JoinInit PROVE JoinInv
  BY Zenon
<1>1. receipts \in [Verifier -> Seq(Receipt)] /\ posted \in [Verifier -> Seq(Receipt)]
  BY DEF JoinInit
<1>2. DOMAIN nodeVotes = {} /\ DOMAIN checkRequests = {}
  BY Zenon DEF JoinInit, NoVotes
<1>3. results = <<>> /\ cast = {} /\ hasBenSet = FALSE /\ joinBound \in JoinBounds
  BY Zenon DEF JoinInit
<1>4. MajorityDecides
  BY <1>3 DEF MajorityDecides
<1>5. VotesAreCast
  BY Zenon, <1>3 DEF VotesAreCast
<1> QED
  BY Zenon, <1>1, <1>2, <1>3, <1>4, <1>5 DEF JoinInv

LEMMA JoinSpaceKeepsInv ==
  ASSUME JoinInv, JoinSpace, joinBound' = joinBound
  PROVE  JoinInv'
<1>1. ~hasBenSet /\ results = <<>> /\ cast = {} /\ joining' # "not"
  BY Zenon DEF JoinInv, JoinSpace
<1>2. UNCHANGED <<receipts, posted, results, cast>>
  BY Zenon DEF JoinSpace, verifierVars
<1>3. CASE Reverts
  <2>1. UNCHANGED <<hasBenSet, nodeVotes, checkRequests>>
    BY Zenon, <1>3 DEF JoinSpace
  <2> QED
    BY <1>1, <1>2, <2>1 DEF JoinInv, VotesAreCast, MajorityDecides
<1>4. CASE ~Reverts
  <2>1. /\ DOMAIN nodeVotes' = {q \in Role \X Verifier : q[1] \in AskedRoles /\ q[2] \in joinBound.draw[q[1]]}
        /\ \A p \in DOMAIN nodeVotes' : nodeVotes'[p] = "NOT_VOTED"
        /\ DOMAIN checkRequests' = Asked
        /\ \A i \in Asked : /\ checkRequests'[i].role = Reached[i]
                            /\ checkRequests'[i].nodes = joinBound.draw[Reached[i]]
        /\ hasBenSet' \in BOOLEAN
    BY <1>4 DEF JoinSpace
  <2>2. ASSUME NEW r \in Role, NEW n \in Verifier, <<r, n>> \in DOMAIN nodeVotes'
        PROVE  \E k \in DOMAIN checkRequests' :
                 checkRequests'[k].role = r /\ checkRequests'[k].nodes = Selected(r)'
    <3>1. r \in AskedRoles
      BY <2>1, <2>2
    <3>2. PICK k \in Asked : Reached[k] = r
      BY Zenon, <3>1 DEF AskedRoles
    <3>3. joinBound.draw[r] \subseteq Verifier
      BY Zenon, JoinAssumption DEF JoinInv, JoinBound
    <3>4. Selected(r)' = joinBound.draw[r]
      BY Zenon, <2>1, <3>1, <3>3 DEF Selected
    <3> QED
      BY Zenon, <2>1, <3>2, <3>4
  <2>3. VotesAreCast'
    BY Zenon, <1>1, <1>2, <2>1, <2>2 DEF VotesAreCast
  <2>4. \A k \in DOMAIN checkRequests' : checkRequests'[k].role \in Role
    BY Zenon, <2>1 DEF Asked
  <2>5. MajorityDecides'
    BY <1>1, <1>2 DEF MajorityDecides
  <2> QED
    BY Zenon, <1>1, <1>2, <2>1, <2>3, <2>4, <2>5 DEF JoinInv, Vote
<1> QED
  BY Zenon, <1>3, <1>4

\* A vote that does not decide.
LEMMA CountedVoteKeepsInv ==
  ASSUME JoinInv, NEW n \in Verifier, NEW r \in Role, NEW v \in {"PASSED", "FAILED"},
         CanVote(n, r), nodeVotes' = [nodeVotes EXCEPT ![<<r, n>>] = v],
         cast' = cast \cup {<<r, n, v>>},
         UNCHANGED <<joinBound, hasBenSet, receipts, results, checkRequests, joining>>,
         posted' \in [Verifier -> Seq(Receipt)]
  PROVE  JoinInv'
<1>1. hasBenSet /\ results = <<>> /\ joining # "not" /\ <<r, n>> \in DOMAIN nodeVotes
      /\ nodeVotes[<<r, n>>] = "NOT_VOTED"
  BY Zenon DEF JoinInv, VotesAreCast, CanVote, Selected
<1>2. DOMAIN nodeVotes' = DOMAIN nodeVotes
  BY Zenon
<1>3. \A p \in DOMAIN nodeVotes : nodeVotes'[p] = IF p = <<r, n>> THEN v ELSE nodeVotes[p]
  BY Zenon
<1>4. ASSUME NEW s \in Role, NEW k \in Verifier, <<s, k>> \in DOMAIN nodeVotes, NEW w \in Vote
      PROVE  <<s, k, w>> \in cast' <=> (w = nodeVotes'[<<s, k>>] /\ w # "NOT_VOTED")
  <2>1. <<s, k, w>> \in cast <=> (w = nodeVotes[<<s, k>>] /\ w # "NOT_VOTED")
    BY Zenon, <1>1, <1>4 DEF JoinInv, VotesAreCast
  <2>2. CASE s = r /\ k = n
    BY Zenon, <1>1, <1>3, <1>4, <2>1, <2>2
  <2>3. CASE ~(s = r /\ k = n)
    <3>1. nodeVotes'[<<s, k>>] = nodeVotes[<<s, k>>]
      BY Zenon, <1>3, <1>4, <2>3
    <3> QED
      BY Zenon, <2>1, <2>3, <3>1
  <2> QED
    BY Zenon, <2>2, <2>3
<1>5. \A s \in Role : Selected(s)' = Selected(s)
  BY Zenon, <1>2 DEF Selected
<1>6. VotesAreCast'
  <2>1. ASSUME NEW s \in Role, NEW k \in Verifier, <<s, k>> \in DOMAIN nodeVotes'
        PROVE  \E i \in DOMAIN checkRequests' :
                 checkRequests'[i].role = s /\ checkRequests'[i].nodes = Selected(s)'
    <3>1. PICK i \in DOMAIN checkRequests : checkRequests[i].role = s /\ checkRequests[i].nodes = Selected(s)
      BY Zenon, <1>1, <1>2, <2>1 DEF JoinInv, VotesAreCast
    <3> QED
      BY Zenon, <1>5, <3>1
  <2> QED
    BY Zenon, <1>1, <1>2, <1>4, <2>1 DEF VotesAreCast
<1>7. MajorityDecides'
  BY <1>1 DEF MajorityDecides
<1> QED
  BY Zenon, <1>1, <1>2, <1>3, <1>6, <1>7 DEF JoinInv, Vote

\* The status of a completed check is the vote of more than half of the nodes.
LEMMA StatusIsMajority ==
  ASSUME NEW r \in Role, NEW votes,
         Reaches(r, votes, "PASSED") \/ Reaches(r, votes, "FAILED")
  PROVE  Reaches(r, votes, IF Count(r, votes, "PASSED") > Count(r, votes, "FAILED") THEN "PASSED" ELSE "FAILED")
<1>1. IsFiniteSet(Selected(r))
  BY Zenon, JoinAssumption, FS_Subset DEF Selected
<1>2. ASSUME NEW w \in {"PASSED", "FAILED"}
      PROVE  Count(r, votes, w) \in Nat
  BY Zenon, <1>1, FS_Subset, FS_CardinalityType DEF Count
<1>3. Cardinality(Selected(r)) \in Nat
  BY Zenon, <1>1, FS_CardinalityType
<1>4. Count(r, votes, "PASSED") \in Nat /\ Count(r, votes, "FAILED") \in Nat
  BY Zenon, <1>2
<1> QED
  BY <1>3, <1>4 DEF Reaches

LEMMA OneResult ==
  ASSUME NEW x, NEW s, s = <<x>>
  PROVE  Len(s) = 1 /\ s[1] = x /\ (\A i \in DOMAIN s : i = 1)
OBVIOUS

\* A vote that decides.
LEMMA DecidingVoteKeepsInv ==
  ASSUME JoinInv, NEW n \in Verifier, NEW r \in Role, NEW v \in {"PASSED", "FAILED"},
         NEW ruling \in {"PASSED", "FAILED"},
         CanVote(n, r), Reaches(r, [nodeVotes EXCEPT ![<<r, n>>] = v], ruling),
         RemoveTransaction(r), cast' = cast \cup {<<r, n, v>>},
         results' = Append(results, [role |-> r, status |-> ruling]),
         UNCHANGED <<joinBound, receipts, checkRequests, joining>>,
         posted' \in [Verifier -> Seq(Receipt)]
  PROVE  JoinInv'
<1> DEFINE votes == [nodeVotes EXCEPT ![<<r, n>>] = v]
<1>1. hasBenSet /\ results = <<>> /\ joining # "not" /\ <<r, n>> \in DOMAIN nodeVotes
      /\ nodeVotes[<<r, n>>] = "NOT_VOTED"
  BY Zenon DEF JoinInv, VotesAreCast, CanVote, Selected
<1>2. results' = <<[role |-> r, status |-> ruling]>>
  BY <1>1
<1>3. DOMAIN nodeVotes' = {} /\ hasBenSet' = FALSE
  BY Zenon DEF RemoveTransaction, NoVotes
<1>4. PICK k \in DOMAIN checkRequests : checkRequests[k].role = r /\ checkRequests[k].nodes = Selected(r)
  BY Zenon, <1>1 DEF JoinInv, VotesAreCast
<1>5. ASSUME NEW j \in Selected(r)
      PROVE  votes[<<r, j>>] = ruling <=> (\A w \in Vote : <<r, j, w>> \in cast' <=> w = ruling)
  <2>1. j \in Verifier /\ <<r, j>> \in DOMAIN nodeVotes
    BY Zenon, <1>5 DEF Selected
  <2>2. \A w \in Vote : <<r, j, w>> \in cast <=> (w = nodeVotes[<<r, j>>] /\ w # "NOT_VOTED")
    BY Zenon, <1>1, <2>1 DEF JoinInv, VotesAreCast
  <2>3. CASE j = n
    <3>1. votes[<<r, j>>] = v
      BY Zenon, <2>1, <2>3
    <3>2. \A w \in Vote : <<r, j, w>> \in cast' <=> w = v
      BY Zenon, <1>1, <2>2, <2>3
    <3> QED
      BY Zenon, <3>1, <3>2 DEF Vote
  <2>4. CASE j # n
    <3>1. votes[<<r, j>>] = nodeVotes[<<r, j>>] /\ nodeVotes[<<r, j>>] \in Vote
      BY Zenon, <2>1, <2>4 DEF JoinInv
    <3>2. \A w \in Vote : <<r, j, w>> \in cast' <=> <<r, j, w>> \in cast
      BY Zenon, <2>4
    <3> QED
      BY Zenon, <2>2, <3>1, <3>2 DEF Vote
  <2> QED
    BY Zenon, <2>3, <2>4
<1>6. Backers(k, ruling)' = {j \in Selected(r) : votes[<<r, j>>] = ruling}
  BY Zenon, <1>4, <1>5 DEF Backers
<1>7. Cardinality(Backers(k, ruling)') > Cardinality(checkRequests[k].nodes) \div 2
  BY Zenon, <1>4, <1>6 DEF Reaches, Count
<1>8. MajorityDecides'
  <2>1. Len(results') = 1 /\ results'[1] = [role |-> r, status |-> ruling] /\ (\A i \in DOMAIN results' : i = 1)
    BY Zenon, <1>2, OneResult
  <2>2. results'[1].role = r /\ results'[1].status = ruling
    BY <2>1
  <2>3. ASSUME NEW i \in DOMAIN results'
        PROVE  /\ k \in DOMAIN checkRequests' /\ checkRequests'[k].role = results'[i].role
               /\ Cardinality(Backers(k, results[i].status)') > Cardinality(checkRequests'[k].nodes) \div 2
    <3>1. i = 1 /\ checkRequests' = checkRequests
      BY Zenon, <2>1
    <3>2. Backers(k, results[i].status)' = Backers(k, ruling)'
      BY Zenon, <2>2, <3>1 DEF Backers
    <3> QED
      BY Zenon, <1>4, <1>7, <2>2, <3>1, <3>2
  <2> QED
    BY SMTT(30), Z3T(30), Z3T(30), <2>1, <2>3 DEF MajorityDecides
<1>9. VotesAreCast'
  BY Zenon, <1>3 DEF VotesAreCast
<1> QED
  BY Zenon, <1>1, <1>3, <1>8, <1>9 DEF JoinInv

\* The steps that leave the contract alone.
LEMMA OtherStepKeepsInv ==
  ASSUME JoinInv, UNCHANGED <<joinBound, joining, hasBenSet, nodeVotes, checkRequests, results, cast>>,
         receipts' \in [Verifier -> Seq(Receipt)], posted' \in [Verifier -> Seq(Receipt)]
  PROVE  JoinInv'
<1>1. VotesAreCast'
  <2>1. \A r : Selected(r)' = Selected(r)
    BY Zenon DEF Selected
  <2>2. VotesAreCast
    BY Zenon DEF JoinInv
  <2> QED
    BY <2>1, <2>2 DEF VotesAreCast
<1>2. MajorityDecides'
  <2>1. MajorityDecides
    BY Zenon DEF JoinInv
  <2>2. \A k, v : Backers(k, v)' = Backers(k, v)
    BY Zenon DEF Backers
  <2> QED
    BY Zenon, <2>1, <2>2 DEF MajorityDecides
<1> QED
  BY Zenon, <1>1, <1>2 DEF JoinInv

LEMMA MinePostedKeepsInv ==
  ASSUME JoinInv, NEW n \in Verifier, MinePosted(n), joinBound' = joinBound
  PROVE  JoinInv'
<1> DEFINE p == Head(posted[n])
<1>1. p \in Receipt /\ posted' \in [Verifier -> Seq(Receipt)]
  BY DEF JoinInv, MinePosted
<1>2. p.role \in Role /\ p.vote \in {"PASSED", "FAILED"}
  BY Zenon, <1>1 DEF Receipt
<1>3. UNCHANGED <<joining, checkRequests, receipts>>
  BY Zenon DEF MinePosted
<1>4. CASE VoteReverts(n, p.role, p.vote)
  <2>1. UNCHANGED <<hasBenSet, nodeVotes, results, cast>>
    BY Zenon, <1>4 DEF MinePosted, checkVars
  <2> QED
    BY Zenon, <1>1, <1>3, <2>1, OtherStepKeepsInv DEF JoinInv
<1>5. CASE ~VoteReverts(n, p.role, p.vote)
  <2> DEFINE r == p.role
             votes == [nodeVotes EXCEPT ![<<r, n>>] = p.vote]
             ruling == IF Count(r, votes, "PASSED") > Count(r, votes, "FAILED") THEN "PASSED" ELSE "FAILED"
  <2>1. CanVote(n, r) /\ AcceptVote(n, r, p.vote)
    BY Zenon, <1>5 DEF MinePosted, VoteReverts
  <2>2. CASE Reaches(r, votes, "PASSED") \/ Reaches(r, votes, "FAILED")
    <3>1. /\ RemoveTransaction(r) /\ cast' = cast \cup {<<r, n, p.vote>>}
          /\ results' = Append(results, [role |-> r, status |-> ruling])
      BY Zenon, <2>1, <2>2 DEF AcceptVote
    <3>2. Reaches(r, votes, ruling)
      BY Zenon, <1>2, <2>2, StatusIsMajority
    <3>3. ruling \in {"PASSED", "FAILED"}
      BY Zenon
    <3> HIDE DEF ruling, p
    <3> QED
      BY Zenon, <1>1, <1>2, <1>3, <2>1, <3>1, <3>2, <3>3, DecidingVoteKeepsInv
  <2>3. CASE ~(Reaches(r, votes, "PASSED") \/ Reaches(r, votes, "FAILED"))
    <3>1. /\ nodeVotes' = votes /\ cast' = cast \cup {<<r, n, p.vote>>}
          /\ UNCHANGED <<results, hasBenSet>>
      BY Zenon, <2>1, <2>3 DEF AcceptVote
    <3> HIDE DEF p
    <3> QED
      BY Zenon, <1>1, <1>2, <1>3, <2>1, <3>1, CountedVoteKeepsInv
  <2> QED
    BY Zenon, <2>2, <2>3
<1> QED
  BY Zenon, <1>4, <1>5

LEMMA NextJoinInv ==
  ASSUME JoinInv, [JoinNext]_<<joinVars, joinBound>>
  PROVE  JoinInv'
<1>1. CASE UNCHANGED <<joinVars, joinBound>>
  BY Zenon, <1>1, OtherStepKeepsInv DEF joinVars, contractVars, checkVars, verifierVars, JoinInv
<1>2. CASE JoinSpace /\ joinBound' = joinBound
  BY Zenon, <1>2, JoinSpaceKeepsInv
<1>3. ASSUME NEW n \in Verifier, OnEntitlementCheckRequested(n), joinBound' = joinBound
      PROVE  JoinInv'
  <2>1. UNCHANGED <<contractVars, posted>>
    BY Zenon, <1>3 DEF OnEntitlementCheckRequested
  <2>2. PICK k \in DOMAIN checkRequests : HandleRequest(n, checkRequests[k])
    BY Zenon, <1>3 DEF OnEntitlementCheckRequested, NotYetRead
  <2>3. checkRequests[k].role \in Role /\ Outcome(checkRequests[k].role) \in {"PASSED", "FAILED"}
    BY Zenon DEF JoinInv, Outcome
  <2>4. receipts' \in [Verifier -> Seq(Receipt)]
    <3> DEFINE x == [role |-> checkRequests[k].role, vote |-> Outcome(checkRequests[k].role)]
    <3>1. x \in Receipt
      BY Zenon, <2>3 DEF Receipt
    <3>2. receipts' = receipts \/ receipts' = [receipts EXCEPT ![n] = Append(@, x)]
      BY Zenon, <2>2 DEF HandleRequest
    <3> HIDE DEF x
    <3>3. Append(receipts[n], x) \in Seq(Receipt)
      BY <3>1 DEF JoinInv
    <3> QED
      BY Zenon, <3>2, <3>3 DEF JoinInv
  <2> QED
    BY Zenon, <1>3, <2>1, <2>4, OtherStepKeepsInv DEF JoinInv, contractVars, checkVars
<1>4. ASSUME NEW n \in Verifier, WriteEntitlementCheckResult(n), joinBound' = joinBound
      PROVE  JoinInv'
  <2>1. UNCHANGED contractVars /\ receipts' \in [Verifier -> Seq(Receipt)]
    BY <1>4 DEF WriteEntitlementCheckResult, JoinInv
  <2>2. posted' \in [Verifier -> Seq(Receipt)]
    <3>1. Head(receipts[n]) \in Receipt
      BY <1>4 DEF WriteEntitlementCheckResult, JoinInv
    <3>2. posted' = posted \/ posted' = [posted EXCEPT ![n] = Append(@, Head(receipts[n]))]
      BY Zenon, <1>4 DEF WriteEntitlementCheckResult
    <3>3. Append(posted[n], Head(receipts[n])) \in Seq(Receipt)
      BY <3>1 DEF JoinInv
    <3> QED
      BY Zenon, <3>2, <3>3 DEF JoinInv
  <2> QED
    BY Zenon, <1>4, <2>1, <2>2, OtherStepKeepsInv DEF contractVars, checkVars
<1>5. ASSUME NEW n \in Verifier, MinePosted(n), joinBound' = joinBound
      PROVE  JoinInv'
  BY Zenon, <1>5, MinePostedKeepsInv
<1>6. ASSUME NEW n \in Verifier, RestartNode(n), joinBound' = joinBound
      PROVE  JoinInv'
  BY <1>6, OtherStepKeepsInv DEF RestartNode, contractVars, checkVars, JoinInv
<1>7. ASSUME NEW r \in Role, ChangeEntitled(r), joinBound' = joinBound
      PROVE  JoinInv'
  BY Zenon, <1>7, OtherStepKeepsInv DEF ChangeEntitled, contractVars, checkVars, verifierVars, JoinInv
<1>8. CASE RaisePrice /\ joinBound' = joinBound
  BY Zenon, <1>8, OtherStepKeepsInv DEF RaisePrice, contractVars, checkVars, verifierVars, JoinInv
<1> QED
  BY Zenon, <1>1, <1>2, <1>3, <1>4, <1>5, <1>6, <1>7, <1>8 DEF JoinNext

\* The votes of a registered transaction are those that its nodes have cast, and it is
\* decided by more than half of them, once (JoinInv): _postEntitlementCheckResult.
THEOREM JoinInvariant == JoinSpec => []JoinInv
<1>1. JoinInit => JoinInv
  BY Zenon, InitJoinInv
<1>2. JoinInv /\ [JoinNext]_<<joinVars, joinBound>> => JoinInv'
  BY Zenon, NextJoinInv
<1> QED
  BY <1>1, <1>2, PTL DEF JoinSpec

\* A join is decided at most once, by more than half of the nodes that were asked about one
\* of its roles, whatever nodes restart, answer again or answer late (MajorityDecides).
THEOREM MajorityDecidesOnce == JoinSpec => []MajorityDecides
<1>1. JoinInv => MajorityDecides
  BY Zenon DEF JoinInv
<1> QED
  BY <1>1, JoinInvariant, PTL

LEMMA SameReached ==
  ASSUME joinBound' = joinBound
  PROVE  /\ LocalAfterRequest' = LocalAfterRequest
         /\ PassesHere' = PassesHere /\ Asked' = Asked
BY Zenon DEF LocalAfterRequest, PassesHere, Asked, Reached

LEMMA InitTokenInv ==
  ASSUME JoinInit
  PROVE  TokenInv
BY DEF JoinInit, TokenInv, TokenOrRefund

\* The steps that change neither the contract nor what was paid.
LEMMA OtherStepKeepsToken ==
  ASSUME TokenInv, UNCHANGED <<joinBound, joining, hasBenSet, results, tokenVars>>
  PROVE  TokenInv'
<1>1. UNCHANGED <<capturedValue, issued, rejected, refunded>>
  BY Zenon DEF tokenVars
<1> QED
  BY Zenon, <1>1, SameReached DEF TokenInv, TokenOrRefund

LEMMA JoinSpaceKeepsToken ==
  ASSUME JoinInv, TokenInv, JoinSpace, joinBound' = joinBound
  PROVE  TokenInv'
<1> SUFFICES ASSUME ~LocalAfterRequest
             PROVE  TokenInv'
  BY Zenon, SameReached DEF TokenInv
<1>1. /\ joining = "not" /\ joining' # "not" /\ results = <<>> /\ results' = <<>>
      /\ issued = 0 /\ rejected = 0 /\ refunded = 0 /\ ~hasBenSet
  BY Zenon DEF JoinSpace, TokenInv, JoinInv
<1>2. CASE Reverts
  <2>1. UNCHANGED <<hasBenSet, capturedValue, issued, rejected, refunded>>
    BY Zenon, <1>2 DEF JoinSpace, tokenVars
  <2> QED
    BY <1>1, <2>1 DEF TokenInv, TokenOrRefund
<1>3. CASE ~Reverts /\ PassesHere
  <2>1. hasBenSet' = FALSE
    BY Zenon, <1>3 DEF JoinSpace, LocalAfterRequest
  <2>2. issued' = 1 /\ rejected' = 0 /\ refunded' = 0
    BY <1>1, <1>3 DEF JoinSpace, IssueToken
  <2> QED
    BY <1>1, <2>1, <2>2 DEF TokenInv, TokenOrRefund
<1>4. CASE ~Reverts /\ ~PassesHere /\ Asked = {} /\ Reached # <<>>
  <2>1. hasBenSet' = (Asked # {}) /\ rejected' = rejected + 1 /\ UNCHANGED <<issued, refunded>>
    BY Zenon, <1>4 DEF JoinSpace
  <2>2. hasBenSet' = FALSE
    BY Zenon, <1>4, <2>1
  <2>3. issued' = 0 /\ rejected' = 1 /\ refunded' = 0
    BY <1>1, <2>1
  <2> QED
    BY <1>1, <1>4, <2>2, <2>3, SameReached DEF TokenInv, TokenOrRefund
<1>5. CASE ~Reverts /\ ~PassesHere /\ ~(Asked = {} /\ Reached # <<>>)
  <2>1. capturedValue' = joinBound.paid /\ issued' = 0 /\ rejected' = 0 /\ refunded' = 0
    BY Zenon, <1>1, <1>5 DEF JoinSpace
  <2> QED
    BY <1>1, <2>1 DEF TokenInv, TokenOrRefund
<1> QED
  BY Zenon, <1>2, <1>3, <1>4, <1>5

LEMMA MinePostedKeepsToken ==
  ASSUME JoinInv, TokenInv, NEW n \in Verifier, MinePosted(n), joinBound' = joinBound
  PROVE  TokenInv'
<1> DEFINE p == Head(posted[n])
           r == p.role
           votes == [nodeVotes EXCEPT ![<<r, n>>] = p.vote]
           ruling == IF Count(r, votes, "PASSED") > Count(r, votes, "FAILED") THEN "PASSED" ELSE "FAILED"
           completed == Reaches(r, votes, "PASSED") \/ Reaches(r, votes, "FAILED")
<1>1. joining' = joining
  BY Zenon DEF MinePosted
<1>2. CASE VoteReverts(n, r, p.vote)
  <2>1. UNCHANGED <<hasBenSet, results, tokenVars>>
    BY Zenon, <1>2 DEF MinePosted, checkVars
  <2> QED
    BY Zenon, <1>1, <2>1, OtherStepKeepsToken
<1>3. CASE ~VoteReverts(n, r, p.vote)
  <2>1. AcceptVote(n, r, p.vote) /\ hasBenSet
    BY Zenon, <1>3 DEF MinePosted, VoteReverts, CanVote
  <2>2. CASE ~completed
    <3>1. UNCHANGED <<hasBenSet, results, tokenVars>>
      BY Zenon, <2>1, <2>2 DEF AcceptVote
    <3> QED
      BY Zenon, <1>1, <3>1, OtherStepKeepsToken
  <2>3. CASE completed
    <3> SUFFICES ASSUME ~LocalAfterRequest
                 PROVE  TokenInv'
      BY Zenon, SameReached DEF TokenInv
    <3>1. /\ joining' # "not" /\ results = <<>> /\ capturedValue = joinBound.paid
          /\ issued = 0 /\ rejected = 0 /\ refunded = 0
      BY Zenon, <1>1, <2>1 DEF JoinInv, VotesAreCast, TokenInv
    <3>2. hasBenSet' = FALSE
      BY Zenon, <2>1, <2>3 DEF AcceptVote, RemoveTransaction
    <3>3. results' = Append(results, [role |-> r, status |-> ruling])
      BY Zenon, <2>1, <2>3 DEF AcceptVote
    <3>4. results' # <<>> /\ results'[1].status = ruling
      <4>1. results' = <<[role |-> r, status |-> ruling]>>
        BY <3>1, <3>3
      <4> HIDE DEF ruling, r
      <4> QED
        BY Zenon, <4>1, OneResult
    <3>5. CASE ruling = "PASSED"
      <4>1. IssueToken(capturedValue)
        BY Zenon, <2>1, <2>3, <3>5 DEF AcceptVote
      <4>2. issued' = 1 /\ rejected' = 0 /\ refunded' = 0
        BY <3>1, <4>1 DEF IssueToken
      <4> HIDE DEF ruling
      <4> QED
        BY <3>1, <3>2, <3>4, <3>5, <4>2 DEF TokenInv, TokenOrRefund
    <3>6. CASE ruling = "FAILED"
      <4>1. Reject
        BY Zenon, <2>1, <2>3, <3>6 DEF AcceptVote
      <4>2. joinBound.paid \in Nat
        BY Zenon, JoinAssumption DEF JoinInv, JoinBound
      <4>3. issued' = 0 /\ rejected' = 1 /\ refunded' = joinBound.paid /\ capturedValue' = 0
        BY <3>1, <4>1, <4>2 DEF Reject
      <4> HIDE DEF ruling
      <4> QED
        BY <3>1, <3>2, <3>4, <3>6, <4>3 DEF TokenInv, TokenOrRefund
    <3> QED
      BY Zenon, <3>5, <3>6
  <2> QED
    BY Zenon, <2>2, <2>3
<1> QED
  BY Zenon, <1>2, <1>3

LEMMA NextTokenInv ==
  ASSUME JoinInv, TokenInv, [JoinNext]_<<joinVars, joinBound>>
  PROVE  TokenInv'
<1>1. CASE UNCHANGED <<joinVars, joinBound>>
  BY Zenon, <1>1, OtherStepKeepsToken DEF joinVars, contractVars, checkVars
<1>2. CASE JoinSpace /\ joinBound' = joinBound
  BY Zenon, <1>2, JoinSpaceKeepsToken
<1>3. ASSUME NEW n \in Verifier, MinePosted(n), joinBound' = joinBound
      PROVE  TokenInv'
  BY Zenon, <1>3, MinePostedKeepsToken
<1>4. CASE UNCHANGED <<contractVars, joinBound>>
  BY Zenon, <1>4, OtherStepKeepsToken DEF contractVars, checkVars
<1> QED
  BY Zenon, <1>1, <1>2, <1>3, <1>4 DEF JoinNext, OnEntitlementCheckRequested, WriteEntitlementCheckResult,
     RestartNode, ChangeEntitled, RaisePrice

\* A join ends in a token or in a rejection, never in both and as the nodes' result says; what was
\* paid is paid back when the nodes reject it, and never to a user who has the token (TokenOrRefund:
\* _issueToken, _onEntitlementCheckResultPosted and _refundBalance of MembershipFacet), unless a
\* local role passes after one that asks nodes.
THEOREM TokenOrMoneyBack == JoinSpec => []TokenOrRefund
<1>1. JoinInit => TokenInv
  BY Zenon, InitTokenInv
<1>2. JoinInv /\ TokenInv /\ [JoinNext]_<<joinVars, joinBound>> => TokenInv'
  BY Zenon, NextTokenInv
<1>3. TokenInv => TokenOrRefund
  BY Zenon DEF TokenInv, TokenOrRefund
<1> QED
  BY <1>1, <1>2, <1>3, JoinInvariant, PTL DEF JoinSpec

(***************************************************************************)
(* The quorum of a replicated call, for every set of nodes: the invariant  *)
(* of Wait, and what follows from it for two calls that have succeeded.    *)
(***************************************************************************)
LEMMA HomesFinite ==
  ASSUME repBound \in ReplicationBound
  PROVE  /\ IsFiniteSet(Homes) /\ Homes \subseteq Replica /\ Homes # {}
         /\ \A c \in AddCall : /\ Node(c) \in Replica
                               /\ IsFiniteSet(RemoteNodes(c)) /\ RemoteNodes(c) \subseteq Homes
<1>1. Homes \subseteq Replica /\ Homes # {}
  BY Zenon DEF ReplicationBound, Homes
<1>2. IsFiniteSet(Homes)
  BY Zenon, <1>1, ReplicationAssumption, FS_Subset
<1>3. ASSUME NEW c \in AddCall
      PROVE  Node(c) \in Replica /\ IsFiniteSet(RemoteNodes(c)) /\ RemoteNodes(c) \subseteq Homes
  <2>1. Node(c) \in Replica
    BY Zenon DEF ReplicationBound, Node
  <2>2. RemoteNodes(c) \subseteq Homes
    BY Zenon DEF RemoteNodes
  <2> QED
    BY Zenon, <2>1, <2>2, <1>2, FS_Subset
<1> QED
  BY Zenon, <1>1, <1>2, <1>3

LEMMA RemoteQuorumIsInt ==
  ASSUME repBound \in ReplicationBound, NEW c \in AddCall
  PROVE  RemoteQuorumNum(c) \in Int /\ Cardinality(RemoteNodes(c)) \in Nat
<1>1. Cardinality(RemoteNodes(c)) \in Nat
  BY Zenon, HomesFinite, FS_CardinalityType
<1> QED
  BY <1>1 DEF RemoteQuorumNum, TotalQuorumNum

\* Good answers are never lost.
LEMMA GoodGrows ==
  ASSUME repBound \in ReplicationBound, repBound' = repBound, NEW c \in AddCall,
         taken \subseteq taken', succeeded \subseteq succeeded',
         Cardinality(Good(c)) >= RemoteQuorumNum(c)
  PROVE  Cardinality(Good(c)') >= RemoteQuorumNum(c)'
<1>1. Good(c) \subseteq Good(c)' /\ Good(c)' \subseteq RemoteNodes(c)
  BY Zenon DEF Good, RemoteNodes, Homes, Node
<1>2. IsFiniteSet(Good(c)')
  BY Zenon, <1>1, HomesFinite, FS_Subset
<1>3. Cardinality(Good(c)) <= Cardinality(Good(c)') /\ IsFiniteSet(Good(c))
  BY Zenon, <1>1, <1>2, FS_Subset
<1>4. Cardinality(Good(c)) \in Nat /\ Cardinality(Good(c)') \in Nat
  BY Zenon, <1>2, <1>3, FS_CardinalityType
<1>5. RemoteQuorumNum(c)' = RemoteQuorumNum(c)
  BY Zenon DEF RemoteQuorumNum, RemoteNodes, Homes, Node, IsLocal
<1> QED
  BY <1>3, <1>4, <1>5, RemoteQuorumIsInt

LEMMA InitReplicationInv ==
  ReplicationInit => ReplicationInv
<1> SUFFICES ASSUME ReplicationInit PROVE ReplicationInv
  BY Zenon
<1>1. ReplicationTypes
  BY Zenon, ReplicationAssumption DEF ReplicationInit, ReplicationTypes, Task
<1>2. \A c \in AddCall : WaitInv(c)
  BY Zenon DEF ReplicationInit, WaitInv, Answers
<1> QED
  BY Zenon, <1>1, <1>2 DEF ReplicationInv

\* A step keeps the invariant of a call if it leaves alone its pool and the answers taken.
LEMMA CallKept ==
  ASSUME ReplicationTypes, repBound' = repBound, NEW c \in AddCall, WaitInv(c),
         pool'[c] = pool[c],
         running \cup succeeded \cup erred \subseteq running' \cup succeeded' \cup erred',
         taken \subseteq taken', succeeded \subseteq succeeded',
         \A n \in RemoteNodes(c) : <<c, n>> \in taken' => <<c, n>> \in taken
  PROVE  WaitInv(c)'
<1>1. Homes' = Homes /\ Node(c)' = Node(c) /\ IsLocal(c)' = IsLocal(c) /\ RemoteNodes(c)' = RemoteNodes(c)
  BY Zenon DEF Homes, Node, IsLocal, RemoteNodes
<1>2. Answers(c)' = Answers(c)
  BY Zenon, <1>1 DEF Answers
<1>3. pool[c] = "ok" => Cardinality(Good(c)') >= RemoteQuorumNum(c)'
  BY Zenon, GoodGrows DEF WaitInv, ReplicationTypes
<1> QED
  BY Zenon, <1>1, <1>2, <1>3 DEF WaitInv

LEMMA StartTasksKeeps ==
  ASSUME ReplicationInv, repBound' = repBound, NEW d \in AddCall, StartTasks(d)
  PROVE  ReplicationInv'
<1>1. ReplicationTypes'
  BY Zenon, HomesFinite DEF ReplicationInv, ReplicationTypes, StartTasks, Task
<1>2. ASSUME NEW c \in AddCall, c # d PROVE WaitInv(c)'
  BY Zenon, <1>2, CallKept DEF StartTasks, ReplicationInv, ReplicationTypes
<1>3. WaitInv(d)'
  <2>1. /\ Homes' = Homes /\ Node(d)' = Node(d) /\ IsLocal(d)' = IsLocal(d)
        /\ RemoteNodes(d)' = RemoteNodes(d)
    BY Zenon DEF Homes, Node, IsLocal, RemoteNodes
  <2>2. pool'[d] = IF IsLocal(d) THEN "local" ELSE "remotes"
    BY Zenon DEF StartTasks, ReplicationInv, ReplicationTypes
  <2>3. {d} \X Homes' \subseteq running' \cup succeeded' \cup erred'
    BY Zenon, <2>1 DEF StartTasks
  <2>4. Answers(d)' = {}
    BY Zenon, <2>1 DEF StartTasks, ReplicationInv, WaitInv, Answers
  <2>5. ~IsLocal(d) => RemoteNodes(d) # {}
    BY Zenon, HomesFinite DEF IsLocal, RemoteNodes, ReplicationInv, ReplicationTypes
  <2> QED
    BY Zenon, <2>1, <2>2, <2>3, <2>4, <2>5 DEF WaitInv
<1> QED
  BY Zenon, <1>1, <1>2, <1>3 DEF ReplicationInv

LEMMA TaskKeeps ==
  ASSUME ReplicationInv, repBound' = repBound, NEW t \in running,
         Stores(t) \/ Succeeds(t) \/ Fails(t)
  PROVE  ReplicationInv'
<1>1. ReplicationTypes'
  BY Zenon DEF ReplicationInv, ReplicationTypes, Stores, Succeeds, Fails
<1>2. ASSUME NEW c \in AddCall PROVE WaitInv(c)'
  <2>1. /\ running \cup succeeded \cup erred \subseteq running' \cup succeeded' \cup erred'
        /\ taken' = taken /\ succeeded \subseteq succeeded' /\ pool' = pool
    BY Zenon DEF Stores, Succeeds, Fails
  <2> QED
    BY Zenon, <2>1, CallKept DEF ReplicationInv
<1> QED
  BY Zenon, <1>1, <1>2 DEF ReplicationInv

\* Without remotes, the success of the local task is a quorum.
LEMMA AloneIsQuorum ==
  ASSUME repBound \in ReplicationBound, NEW c \in AddCall, IsLocal(c), RemoteNodes(c) = {}
  PROVE  Cardinality(Good(c)) >= RemoteQuorumNum(c)
<1>1. Good(c) = {}
  BY Zenon DEF Good
<1>2. Cardinality(Good(c)) = 0 /\ Cardinality(RemoteNodes(c)) = 0
  BY Zenon, <1>1, FS_EmptySet
<1>3. (0 + 1 + 1) \div 2 = 1
  OBVIOUS
<1> QED
  BY <1>2, <1>3 DEF RemoteQuorumNum, TotalQuorumNum

LEMMA WaitLocalKeeps ==
  ASSUME ReplicationInv, repBound' = repBound, NEW d \in AddCall, WaitLocal(d)
  PROVE  ReplicationInv'
<1>1. ReplicationTypes'
  BY Zenon DEF ReplicationInv, ReplicationTypes, WaitLocal
<1>2. ASSUME NEW c \in AddCall, c # d PROVE WaitInv(c)'
  BY Zenon, <1>2, CallKept DEF WaitLocal, ReplicationInv, ReplicationTypes
<1>3. WaitInv(d)'
  <2>1. /\ Homes' = Homes /\ Node(d)' = Node(d) /\ IsLocal(d)' = IsLocal(d)
        /\ RemoteNodes(d)' = RemoteNodes(d)
    BY Zenon DEF Homes, Node, IsLocal, RemoteNodes
  <2>2. Answers(d)' = Answers(d) /\ Good(d)' = Good(d) /\ RemoteQuorumNum(d)' = RemoteQuorumNum(d)
    BY Zenon, <2>1 DEF Answers, Good, RemoteQuorumNum, WaitLocal
  <2>3. Answers(d) = {} /\ {d} \X Homes \subseteq running \cup succeeded \cup erred
    BY Zenon DEF WaitLocal, ReplicationInv, WaitInv
  <2>4. CASE <<d, Node(d)>> \in erred
    <3>1. pool'[d] = "error"
      BY Zenon, <2>4 DEF WaitLocal, ReplicationInv, ReplicationTypes
    <3> QED
      BY Zenon, <3>1, <2>1, <2>3 DEF WaitInv, WaitLocal
  <2>5. CASE <<d, Node(d)>> \notin erred /\ RemoteNodes(d) = {}
    <3>1. pool'[d] = "ok" /\ <<d, Node(d)>> \in succeeded
      BY Zenon, <2>5 DEF WaitLocal, ReplicationInv, ReplicationTypes
    <3>2. IsLocal(d)
      BY Zenon, <2>5, HomesFinite DEF RemoteNodes, IsLocal, ReplicationInv, ReplicationTypes
    <3>3. Cardinality(Good(d)) >= RemoteQuorumNum(d)
      BY Zenon, <3>2, <2>5, AloneIsQuorum DEF ReplicationInv, ReplicationTypes
    <3> QED
      BY Zenon, <3>1, <3>3, <2>1, <2>2, <2>3 DEF WaitInv, WaitLocal
  <2>6. CASE <<d, Node(d)>> \notin erred /\ RemoteNodes(d) # {}
    <3>1. pool'[d] = "remotes" /\ <<d, Node(d)>> \in succeeded
      BY Zenon, <2>6 DEF WaitLocal, ReplicationInv, ReplicationTypes
    <3> QED
      BY Zenon, <3>1, <2>6, <2>1, <2>2, <2>3 DEF WaitInv, WaitLocal
  <2> QED
    BY Zenon, <2>4, <2>5, <2>6
<1> QED
  BY Zenon, <1>1, <1>2, <1>3 DEF ReplicationInv

LEMMA WaitRemoteKeeps ==
  ASSUME ReplicationInv, repBound' = repBound, NEW d \in AddCall, NEW m \in Replica,
         WaitRemote(d, m)
  PROVE  ReplicationInv'
<1>0. /\ taken' = taken \cup {<<d, m>>} /\ m \in RemoteNodes(d)
      /\ running' = running /\ succeeded' = succeeded /\ erred' = erred /\ holds' = holds
  BY Zenon DEF WaitRemote
<1>1. ReplicationTypes'
  BY Zenon, <1>0 DEF ReplicationInv, ReplicationTypes, WaitRemote, AfterSuccess, AfterFailure, OrElse
<1>2. ASSUME NEW c \in AddCall, c # d PROVE WaitInv(c)'
  <2>1. pool'[c] = pool[c]
    BY Zenon, <1>2 DEF WaitRemote, ReplicationInv, ReplicationTypes
  <2>2. \A n \in RemoteNodes(c) : <<c, n>> \in taken' => <<c, n>> \in taken
    BY Zenon, <1>0, <1>2
  <2> QED
    BY Zenon, <1>0, <2>1, <2>2, CallKept DEF ReplicationInv
<1>3. WaitInv(d)'
  <2>1. /\ Homes' = Homes /\ Node(d)' = Node(d) /\ IsLocal(d)' = IsLocal(d)
        /\ RemoteNodes(d)' = RemoteNodes(d)
    BY Zenon DEF Homes, Node, IsLocal, RemoteNodes
  <2>2. RemoteQuorumNum(d)' = RemoteQuorumNum(d) /\ Answers(d)' = Answers(d) \cup {m}
    BY Zenon, <1>0, <2>1 DEF RemoteQuorumNum, Answers
  <2>3. pool[d] = "remotes" /\ WaitInv(d)
    BY Zenon DEF WaitRemote, ReplicationInv
  <2>4. /\ {d} \X Homes' \subseteq running' \cup succeeded' \cup erred'
        /\ IsLocal(d)' => <<d, Node(d)'>> \in succeeded'
    BY Zenon, <1>0, <2>1, <2>3 DEF WaitInv
  <2>5. CASE <<d, m>> \in succeeded
    <3>1. pool'[d] = AfterSuccess(d, m)
      BY Zenon, <2>5 DEF WaitRemote, ReplicationInv, ReplicationTypes
    <3>2. Good(d)' = Good(d) \cup {m}
      BY Zenon, <1>0, <2>1, <2>5 DEF Good
    <3> QED
      BY Zenon, <3>1, <3>2, <2>1, <2>2, <2>4 DEF WaitInv, AfterSuccess, OrElse
  <2>6. CASE <<d, m>> \notin succeeded
    <3>1. pool'[d] = AfterFailure(d, m)
      BY Zenon, <2>6 DEF WaitRemote, ReplicationInv, ReplicationTypes
    <3> QED
      BY Zenon, <3>1, <2>1, <2>2, <2>4 DEF WaitInv, AfterFailure, OrElse
  <2> QED
    BY Zenon, <2>5, <2>6
<1> QED
  BY Zenon, <1>1, <1>2, <1>3 DEF ReplicationInv

LEMMA NextReplicationInv ==
  ReplicationInv /\ [ReplicationNext]_<<repVars, repBound>> => ReplicationInv'
<1> SUFFICES ASSUME ReplicationInv, [ReplicationNext]_<<repVars, repBound>>
             PROVE  ReplicationInv'
  BY Zenon
<1>1. CASE UNCHANGED <<repVars, repBound>>
  <2>1. ReplicationTypes'
    BY Zenon, <1>1 DEF ReplicationInv, ReplicationTypes, repVars
  <2>2. \A c \in AddCall : WaitInv(c)'
    BY Zenon, <1>1, CallKept DEF ReplicationInv, repVars
  <2> QED
    BY Zenon, <2>1, <2>2 DEF ReplicationInv
<1>2. CASE ReplicationNext
  BY Zenon, <1>2, StartTasksKeeps, WaitLocalKeeps, TaskKeeps, WaitRemoteKeeps DEF ReplicationNext
<1> QED
  BY Zenon, <1>1, <1>2

\* The call of a success is held by more than half of an odd number of nodes.
LEMMA OkIsMajority ==
  ASSUME ReplicationInv, NEW c \in AddCall, pool[c] = "ok", Cardinality(Homes) % 2 = 1
  PROVE  2 * Cardinality(Holders(c)) > Cardinality(Homes)
<1> USE DEF ReplicationInv
<1>1. IsFiniteSet(Homes) /\ IsFiniteSet(RemoteNodes(c)) /\ Holders(c) \subseteq Homes
  BY Zenon, HomesFinite DEF Holders, ReplicationTypes
<1>2. IsFiniteSet(Holders(c)) /\ Good(c) \subseteq Holders(c) /\ Good(c) \subseteq RemoteNodes(c)
  <2>1. Good(c) \subseteq Holders(c) /\ Good(c) \subseteq RemoteNodes(c)
    BY Zenon DEF Good, Holders, RemoteNodes, ReplicationTypes
  <2> QED
    BY Zenon, <2>1, <1>1, FS_Subset
<1>3. IsFiniteSet(Good(c)) /\ Cardinality(Good(c)) <= Cardinality(Holders(c))
  BY Zenon, <1>2, FS_Subset
<1>4. /\ Cardinality(Homes) \in Nat /\ Cardinality(RemoteNodes(c)) \in Nat
      /\ Cardinality(Good(c)) \in Nat /\ Cardinality(Holders(c)) \in Nat
  BY Zenon, <1>1, <1>2, <1>3, FS_CardinalityType
<1>5. Cardinality(Good(c)) >= RemoteQuorumNum(c)
  BY Zenon DEF WaitInv
<1>6. CASE IsLocal(c)
  <2>1. Node(c) \in Holders(c) /\ Node(c) \notin Good(c) /\ Node(c) \notin RemoteNodes(c)
    BY Zenon, <1>6 DEF WaitInv, IsLocal, Holders, Good, RemoteNodes, ReplicationTypes
  <2>2. Homes = RemoteNodes(c) \cup {Node(c)}
    BY Zenon, <1>6 DEF IsLocal, RemoteNodes
  <2>3. Cardinality(Homes) = Cardinality(RemoteNodes(c)) + 1
    BY Zenon, <2>1, <2>2, <1>1, FS_AddElement
  <2>4. Cardinality(Good(c) \cup {Node(c)}) = Cardinality(Good(c)) + 1
    BY Zenon, <2>1, <1>3, FS_AddElement
  <2>5. Cardinality(Good(c) \cup {Node(c)}) <= Cardinality(Holders(c))
    BY Zenon, <2>1, <1>2, FS_Subset
  <2>6. RemoteQuorumNum(c) = (Cardinality(Homes) + 1) \div 2 - 1
    BY Zenon, <2>3, <1>4, <1>6 DEF RemoteQuorumNum, TotalQuorumNum
  <2> QED
    BY SMTT(30), Z3T(30), <2>4, <2>5, <2>6, <1>4, <1>5
<1>7. CASE ~IsLocal(c)
  <2>1. RemoteNodes(c) = Homes
    BY Zenon, <1>7 DEF IsLocal, RemoteNodes
  <2>2. RemoteQuorumNum(c) = (Cardinality(Homes) + 1) \div 2
    BY Zenon, <2>1, <1>7 DEF RemoteQuorumNum, TotalQuorumNum
  <2> QED
    BY <2>2, <1>3, <1>4, <1>5
<1> QED
  BY Zenon, <1>6, <1>7

LEMMA InvQuorumsMeet == ReplicationInv => QuorumsMeet
<1> SUFFICES ASSUME ReplicationInv, Cardinality(Homes) % 2 = 1, NEW c \in AddCall, NEW d \in AddCall,
                    pool[c] = "ok", pool[d] = "ok"
             PROVE  Holders(c) \cap Holders(d) # {}
  BY Zenon DEF QuorumsMeet
<1>1. IsFiniteSet(Homes) /\ Holders(c) \subseteq Homes /\ Holders(d) \subseteq Homes
  BY Zenon, HomesFinite DEF Holders, ReplicationInv, ReplicationTypes
<1>2. IsFiniteSet(Holders(c)) /\ IsFiniteSet(Holders(d))
  BY Zenon, <1>1, FS_Subset
<1>3. /\ Cardinality(Homes) \in Nat /\ Cardinality(Holders(c)) \in Nat
      /\ Cardinality(Holders(d)) \in Nat
  BY Zenon, <1>1, <1>2, FS_CardinalityType
<1>4. Cardinality(Holders(c)) + Cardinality(Holders(d)) > Cardinality(Homes)
  BY <1>3, OkIsMajority
<1> QED
  BY Zenon, <1>1, <1>4, FS_MajoritiesIntersect

LEMMA InvWaitReturns == ReplicationInv => WaitReturns
<1> SUFFICES ASSUME ReplicationInv, NEW c \in AddCall, pool[c] = "remotes"
             PROVE  \E n \in RemoteNodes(c) : <<c, n>> \in (running \cup succeeded \cup erred) \ taken
  BY Zenon DEF WaitReturns
<1>1. PICK n \in RemoteNodes(c) : <<c, n>> \notin taken
  BY Zenon DEF ReplicationInv, WaitInv, Answers
<1>2. <<c, n>> \in running \cup succeeded \cup erred
  BY Zenon DEF ReplicationInv, WaitInv, RemoteNodes
<1> QED
  BY Zenon, <1>1, <1>2

\* The invariant of Wait (quorum_pool.go:37-73) holds of every number of nodes and calls, and
\* whatever fails.
THEOREM WaitInvariant == ReplicationSpec => []ReplicationInv
<1>1. ReplicationInit => ReplicationInv
  BY Zenon, InitReplicationInv
<1>2. ReplicationInv /\ [ReplicationNext]_<<repVars, repBound>> => ReplicationInv'
  BY Zenon, NextReplicationInv
<1> QED
  BY <1>1, <1>2, PTL DEF ReplicationSpec

\* Two calls that have succeeded on an odd number of nodes have a node in common that holds
\* the data of both (util.go:44-55, quorum_pool.go:37-73).
THEOREM SuccessesMeet == ReplicationSpec => []QuorumsMeet
BY WaitInvariant, InvQuorumsMeet, PTL

\* Wait never waits for an answer that cannot come (quorum_pool.go:46-69).
THEOREM WaitIsAnswered == ReplicationSpec => []WaitReturns
BY WaitInvariant, InvWaitReturns, PTL

(***************************************************************************)
(* The sticky peer: PeersInv is inductive.  A request has asked only peers *)
(* that the sticky peer has passed, but for the one it asks now.           *)
(***************************************************************************)

\* The members of a sequence are finitely many.
LEMMA FiniteMembers ==
  ASSUME NEW S, NEW q \in Seq(S)
  PROVE IsFiniteSet(Range(q)) /\ Range(q) \subseteq S /\ (q # <<>> => Range(q) # {})
<1>1. q \in [1 .. Len(q) -> S] /\ Len(q) \in Nat /\ DOMAIN q = 1 .. Len(q)
  OBVIOUS
<1>2. Range(q) \subseteq S
  BY <1>1 DEF Range
<1>3. q \in Surjection(1 .. Len(q), Range(q))
  BY <1>1 DEF Range, Surjection
<1>4. IsFiniteSet(Range(q))
  BY <1>1, <1>3, FS_NatSurjection, Zenon DEF ExistsSurjection
<1>5. q # <<>> => q[1] \in Range(q)
  <2>1. q # <<>> => 1 \in 1 .. Len(q)
    OBVIOUS
  <2> QED BY <1>1, <2>1 DEF Range
<1> QED BY <1>2, <1>4, <1>5

\* A shuffle has each of the other nodes once.
LEMMA ShuffleFacts ==
  ASSUME NEW S, IsFiniteSet(S), NEW r \in Shuffles(S)
  PROVE r \in Seq(S) /\ IsInjective(r) /\ (S # {} => r # <<>>)
<1>1. Cardinality(S) \in Nat /\ (Cardinality(S) = 0 <=> S = {})
  BY FS_CardinalityType, FS_EmptySet, Zenon
<1>2. /\ r \in [1 .. Cardinality(S) -> S] /\ DOMAIN r = 1 .. Cardinality(S)
      /\ \A i, j \in 1 .. Cardinality(S) : i # j => r[i] # r[j]
  BY DEF Shuffles, Injection, IsInjective
<1>3. r \in Seq(S) /\ Len(r) = Cardinality(S)
  BY <1>1, <1>2
<1>4. IsInjective(r)
  BY <1>2, Zenon DEF IsInjective
<1> QED BY <1>1, <1>3, <1>4

LEMMA PeerInitInv == PeerInit => PeersInv
<1> SUFFICES ASSUME PeerInit PROVE PeersInv
  OBVIOUS
<1>1. peerBound \in PeerBound
  BY PeerAssumption DEF PeerInit
<1>2. PeerTypes /\ UpdatesMix
  BY <1>1 DEF PeerInit, PeerTypes, PeerRequest, UpdatesMix
<1>3. /\ remotes \in Seq(Peer) /\ IsInjective(remotes)
  <2>1. streamNodes \in Seq(Peer) /\ remotes \in Shuffles(Others(streamNodes))
    BY <1>1 DEF PeerInit, PeerBound
  <2>2. IsFiniteSet(Range(streamNodes)) /\ Range(streamNodes) \subseteq Peer
    BY <2>1, FiniteMembers, Zenon
  <2>3. IsFiniteSet(Others(streamNodes)) /\ Others(streamNodes) \subseteq Peer
    BY <2>2, FS_RemoveElement DEF Others
  <2>4. remotes \in Seq(Others(streamNodes)) /\ IsInjective(remotes)
    BY <2>1, <2>3, ShuffleFacts, Zenon
  <2> QED BY <2>3, <2>4
<1>4. PeerSeqs /\ FoundUnavailable
  BY <1>3 DEF PeerInit, PeerSeqs, FoundUnavailable, NotForwarding
<1>5. ASSUME NEW f \in Forward PROVE AskedInOrder(f)
  BY DEF PeerInit, AskedInOrder, NotForwarding, IsInjective
<1> QED BY <1>2, <1>4, <1>5, Zenon DEF PeersInv

\* The requests that no update has met.
LEMMA NotMixed ==
  ASSUME PeersInv, updates' = updates, peerBound' = peerBound, mixed' \subseteq Forward, mixed \subseteq mixed',
         updates = 0 => /\ PeerTypes' /\ PeerSeqs' /\ FoundUnavailable'
                        /\ \A f \in Forward \ mixed' : AskedInOrder(f)'
  PROVE PeersInv'
<1>1. UpdatesMix'
  BY DEF PeersInv, UpdatesMix
<1> QED BY <1>1, Zenon DEF PeersInv

\* After an update every request is mixed.
LEMMA UpdateNodesInv ==
  ASSUME PeersInv, NEW n \in Peer, UpdateNodes(n), UNCHANGED peerBound
  PROVE PeersInv'
<1>1. UpdatesMix /\ peerBound.updates \in Nat
  BY DEF PeersInv, UpdatesMix, PeerBound
<1>2. updates < peerBound.updates /\ updates' = updates + 1 /\ mixed' = Forward /\ peerBound' = peerBound
  BY DEF UpdateNodes
<1>3. UpdatesMix' /\ updates' # 0
  BY <1>1, <1>2 DEF UpdatesMix
<1> QED BY <1>3, Zenon DEF PeersInv

\* A request is what its field at says.
LEMMA RequestKinds ==
  ASSUME PeerTypes, NEW f \in Forward
  PROVE /\ request[f].at = "next" => request[f].tries \in Nat \ {0}
        /\ request[f].at \in {"asking", "advance"} => request[f].peer \in Peer /\ request[f].tries \in Nat \ {0}
  BY DEF PeerTypes, PeerRequest, NotForwarding

\* A step of a request that moves neither the remotes nor the sticky peer.
RequestMoves(f, r) ==
  /\ request' = [request EXCEPT ![f] = r]
  /\ remotes' = remotes /\ stickyPeerIndex' = stickyPeerIndex /\ mixed' = mixed
  /\ updates' = updates /\ peerBound' = peerBound

LEMMA RequestMovesInv ==
  ASSUME PeersInv, NEW f \in Forward, NEW r, RequestMoves(f, r),
         updates = 0 => r \in PeerRequest /\ asked' \in [Forward -> Seq(Peer)],
         updates = 0 => \A g \in Forward : g # f => asked'[g] = asked[g],
         unavailable \subseteq unavailable',
         updates = 0 /\ r.at = "advance" => r.peer \in unavailable',
         updates = 0 /\ f \notin mixed => AskedInOrder(f)'
  PROVE PeersInv'
<1>1. mixed' \subseteq Forward /\ mixed \subseteq mixed' /\ updates' = updates /\ peerBound' = peerBound
  BY Zenon DEF PeersInv, UpdatesMix, RequestMoves
<1>2. ASSUME updates = 0
      PROVE PeerTypes' /\ PeerSeqs' /\ FoundUnavailable' /\ \A g \in Forward \ mixed' : AskedInOrder(g)'
  <2>a. PeerTypes /\ PeerSeqs /\ FoundUnavailable /\ \A g \in Forward \ mixed : AskedInOrder(g)
    BY <1>2, Zenon DEF PeersInv
  <2>b. request' = [request EXCEPT ![f] = r] /\ remotes' = remotes /\ stickyPeerIndex' = stickyPeerIndex /\ mixed' = mixed
    BY Zenon DEF RequestMoves
  <2>c. request'[f] = r /\ \A g \in Forward : g # f => request'[g] = request[g]
    BY <2>a, <2>b, Zenon DEF PeerTypes
  <2>1. PeerTypes'
    BY <1>2, <2>a, <2>b, Zenon DEF PeerTypes
  <2>2. PeerSeqs'
    BY <2>a, <2>b, Zenon DEF PeerSeqs
  <2>3. FoundUnavailable'
    <3>1. ASSUME NEW g \in Forward, request'[g].at = "advance" PROVE request'[g].peer \in unavailable'
      <4>1. CASE g = f
        BY <1>2, <2>c, <3>1, <4>1, Zenon
      <4>2. CASE g # f
        BY <2>a, <2>c, <3>1, <4>2, Zenon DEF FoundUnavailable
      <4> QED BY <4>1, <4>2, Zenon
    <3>2. \A i \in 1 .. stickyPeerIndex' - 1 : remotes'[i] \in unavailable'
      BY <2>a, <2>b, Zenon DEF FoundUnavailable
    <3> QED BY <3>1, <3>2, Zenon DEF FoundUnavailable
  <2>4. ASSUME NEW g \in Forward, g \notin mixed' PROVE AskedInOrder(g)'
    <3>1. CASE g = f
      BY <1>2, <2>b, <2>4, <3>1, Zenon
    <3>2. CASE g # f
      <4>1. request'[g] = request[g] /\ asked'[g] = asked[g] /\ AskedInOrder(g)
        BY <1>2, <2>a, <2>b, <2>c, <2>4, <3>2, Zenon
      <4>2. \A p : PassedOver(p)' <=> PassedOver(p)
        BY <2>b, Zenon DEF PassedOver
      <4> QED BY <2>b, <4>1, <4>2, Zenon DEF AskedInOrder
    <3> QED BY <3>1, <3>2, Zenon
  <2> QED BY <2>1, <2>2, <2>3, <2>4, Zenon
<1> QED BY <1>1, <1>2, NotMixed, Zenon

LEMMA StartForwardInv ==
  ASSUME PeersInv, NEW f \in Forward, StartForward(f), UNCHANGED peerBound
  PROVE PeersInv'
<1>0. PICK r : r = [at |-> "next", tries |-> NumRetries]
  BY Zenon
<1>1. /\ RequestMoves(f, r) /\ asked' = asked /\ unavailable' = unavailable /\ asked[f] = <<>> /\ remotes # <<>>
      /\ request' = [request EXCEPT ![f] = r]
  BY <1>0 DEF StartForward, RequestMoves
<1>2. r.at = "next"
  BY <1>0
<1>3. ASSUME updates = 0 PROVE r \in PeerRequest /\ asked' \in [Forward -> Seq(Peer)] /\ request'[f] = r
  <2>1. remotes \in Seq(Peer) /\ peerBound.retries \in Nat \ {0}
    BY <1>3 DEF PeersInv, PeerSeqs, UpdatesMix, PeerBound
  <2>2. NumRetries \in Nat \ {0}
    <3>1. Len(remotes) \in Nat \ {0}
      BY SMTT(30), Z3T(30), <1>1, <2>1
    <3> QED BY <2>1, <3>1, Zenon DEF NumRetries
  <2>3. r \in PeerRequest
    BY SMTT(30), Z3T(30), Z3T(30), <1>0, <2>2 DEF PeerRequest
  <2> QED BY <1>1, <1>3, <2>3, Zenon DEF PeersInv, PeerTypes
<1>4. ASSUME updates = 0, f \notin mixed PROVE AskedInOrder(f)'
  <2>1. IsInjective(asked[f])
    BY <1>4, Zenon DEF PeersInv, AskedInOrder
  <2>2. Len(asked'[f]) = 0 /\ IsInjective(asked'[f])
    BY SMTT(30), Z3T(30), <1>1, <2>1
  <2> QED BY SMTT(30), Z3T(30), Z3T(30), <1>2, <1>3, <1>4, <2>2 DEF AskedInOrder
<1> QED BY SMTT(30), Z3T(30), <1>1, <1>2, <1>3, <1>4, RequestMovesInv

LEMMA PeerAnswersInv ==
  ASSUME PeersInv, NEW f \in Forward, PeerAnswers(f), UNCHANGED peerBound
  PROVE PeersInv'
<1>0. PICK r : r = [at |-> "done"]
  BY Zenon
<1>1. /\ RequestMoves(f, r) /\ asked' = asked /\ unavailable' = unavailable
      /\ request' = [request EXCEPT ![f] = r]
  BY <1>0 DEF PeerAnswers, RequestMoves
<1>2. r.at = "done" /\ r \in PeerRequest
  BY <1>0 DEF PeerRequest
<1>3. ASSUME updates = 0 PROVE asked' \in [Forward -> Seq(Peer)] /\ request'[f] = r
  BY <1>1, <1>3, Zenon DEF PeersInv, PeerTypes
<1>4. ASSUME updates = 0, f \notin mixed PROVE AskedInOrder(f)'
  <2>1. IsInjective(asked[f])
    BY <1>4, Zenon DEF PeersInv, AskedInOrder
  <2> QED BY SMTT(30), Z3T(30), Z3T(30), <1>1, <1>2, <1>3, <1>4, <2>1 DEF AskedInOrder
<1> QED BY SMTT(30), Z3T(30), <1>1, <1>2, <1>3, <1>4, RequestMovesInv

LEMMA PeerUnavailableInv ==
  ASSUME PeersInv, NEW f \in Forward, PeerUnavailable(f), UNCHANGED peerBound
  PROVE PeersInv'
<1>0. PICK r : r = [request[f] EXCEPT !.at = "advance"]
  BY Zenon
<1>1. /\ request[f].at = "asking" /\ RequestMoves(f, r) /\ asked' = asked
      /\ unavailable' = unavailable \cup {request[f].peer}
      /\ request' = [request EXCEPT ![f] = r] /\ remotes' = remotes /\ stickyPeerIndex' = stickyPeerIndex
  BY <1>0 DEF PeerUnavailable, RequestMoves
<1>3. ASSUME updates = 0
      PROVE /\ r \in PeerRequest /\ asked' \in [Forward -> Seq(Peer)] /\ request'[f] = r
            /\ r.at = "advance" /\ r.peer = request[f].peer
  <2>1. PeerTypes
    BY <1>3, Zenon DEF PeersInv
  <2>2. request[f] \in [at : {"asking", "advance"}, peer : Peer, tries : Nat \ {0}]
    BY <1>1, <2>1 DEF PeerTypes, PeerRequest, NotForwarding
  <2>3. r \in PeerRequest /\ r.at = "advance" /\ r.peer = request[f].peer
    BY <1>0, <2>2 DEF PeerRequest
  <2> QED BY <1>1, <2>1, <2>3, Zenon DEF PeerTypes
<1>4. ASSUME updates = 0, f \notin mixed PROVE AskedInOrder(f)'
  <2>1. AskedInOrder(f)
    BY <1>4, Zenon DEF PeersInv
  <2>2. \A p : PassedOver(p)' <=> PassedOver(p)
    BY <1>1, Zenon DEF PassedOver
  <2>3. request[f].at \in {"asking", "advance"} /\ request'[f].at # "next" /\ request'[f].at \in {"asking", "advance"}
        /\ request'[f].peer = request[f].peer
    BY <1>1, <1>3, <1>4
  <2> QED BY <1>1, <2>1, <2>2, <2>3, Zenon DEF AskedInOrder
<1> QED BY <1>1, <1>3, <1>4, RequestMovesInv

\* A request that has asked only peers behind the sticky peer has not asked the sticky peer.
LEMMA AppendFresh ==
  ASSUME NEW q \in Seq(Peer), NEW p \in Peer, IsInjective(q), \A i \in 1 .. Len(q) : q[i] # p
  PROVE IsInjective(Append(q, p))
<1>1. /\ Len(q) \in Nat /\ DOMAIN q = 1 .. Len(q) /\ DOMAIN Append(q, p) = 1 .. Len(q) + 1
      /\ \A i \in 1 .. Len(q) : Append(q, p)[i] = q[i] /\ Append(q, p)[Len(q) + 1] = p
  OBVIOUS
<1>2. \A i, j \in 1 .. Len(q) : q[i] = q[j] => i = j
  BY <1>1, Zenon DEF IsInjective
<1>3. \A i \in 1 .. Len(q) + 1 : i \in 1 .. Len(q) \/ i = Len(q) + 1
  BY <1>1
<1>4. Append(q, p)[Len(q) + 1] = p
  OBVIOUS
<1>5. ASSUME NEW i \in 1 .. Len(q) + 1, NEW j \in 1 .. Len(q) + 1, Append(q, p)[i] = Append(q, p)[j] PROVE i = j
  BY <1>1, <1>2, <1>3, <1>4, <1>5, Zenon
<1> QED BY <1>1, <1>5, Zenon DEF IsInjective

LEMMA AskPeerInv ==
  ASSUME PeersInv, NEW f \in Forward, AskPeer(f), UNCHANGED peerBound
  PROVE PeersInv'
<1>e. CASE remotes = <<>>
  <2>0. PICK r : r = [at |-> "done"]
    BY Zenon
  <2>1. /\ RequestMoves(f, r) /\ asked' = asked /\ unavailable' = unavailable
        /\ request' = [request EXCEPT ![f] = r]
    BY ZenonT(30), <1>e, <2>0 DEF AskPeer, RequestMoves
  <2>2. r.at = "done" /\ r \in PeerRequest
    BY <2>0 DEF PeerRequest
  <2>3. ASSUME updates = 0 PROVE asked' \in [Forward -> Seq(Peer)] /\ request'[f] = r
    BY <2>1, <2>3, Zenon DEF PeersInv, PeerTypes
  <2>4. ASSUME updates = 0, f \notin mixed PROVE AskedInOrder(f)'
    <3>1. IsInjective(asked[f])
      BY <2>4, Zenon DEF PeersInv, AskedInOrder
    <3> QED BY <2>1, <2>2, <2>3, <2>4, <3>1 DEF AskedInOrder
  <2> QED BY <2>1, <2>2, <2>3, <2>4, RequestMovesInv
<1>n. CASE remotes # <<>>
  <2>p. PICK peer : peer = remotes[stickyPeerIndex]
    OBVIOUS
  <2>0. PICK r : r = [at |-> "asking", peer |-> peer, tries |-> request[f].tries]
    BY Zenon
  <2>1. /\ RequestMoves(f, r) /\ asked' = [asked EXCEPT ![f] = Append(@, peer)] /\ unavailable' = unavailable
        /\ request' = [request EXCEPT ![f] = r] /\ request[f].at = "next"
        /\ remotes' = remotes /\ stickyPeerIndex' = stickyPeerIndex
    BY SMTT(30), Z3T(30), <1>n, <2>p, <2>0 DEF AskPeer, RequestMoves
  <2>2. r.at = "asking" /\ r.peer = peer
    BY <2>0
  <2>a. updates = 0 => PeerTypes /\ PeerSeqs
    BY Zenon DEF PeersInv
  <2>3. ASSUME updates = 0
        PROVE /\ peer \in Peer /\ asked[f] \in Seq(Peer) /\ asked' \in [Forward -> Seq(Peer)]
              /\ request'[f] = r /\ r \in PeerRequest /\ asked'[f] = Append(asked[f], peer)
    <3>1. peer \in Peer
      BY SMTT(30), Z3T(30), Z3T(30), <1>n, <2>a, <2>p, <2>3 DEF PeerSeqs
    <3>2. r \in PeerRequest
      <4>1. request[f].tries \in Nat \ {0}
        BY <2>1, <2>3, <2>a, RequestKinds, Zenon
      <4> QED BY <2>0, <3>1, <4>1 DEF PeerRequest
    <3>3. asked \in [Forward -> Seq(Peer)] /\ request'[f] = r
      BY <2>1, <2>3, <2>a, Zenon DEF PeerTypes
    <3>4. Append(asked[f], peer) \in Seq(Peer)
      BY <3>1, <3>3
    <3> QED BY <2>1, <3>1, <3>2, <3>3, <3>4, Zenon
  <2>4. ASSUME updates = 0, f \notin mixed PROVE AskedInOrder(f)'
    <3>1. AskedInOrder(f)
      BY <2>4, Zenon DEF PeersInv
    <3>2. \A p : PassedOver(p)' <=> PassedOver(p)
      BY <2>1, Zenon DEF PassedOver
    <3>3. ~PassedOver(peer)
      BY SMTT(30), Z3T(30), Z3T(30), <1>n, <2>a, <2>p, <2>4 DEF PeerSeqs, IsInjective, PassedOver
    <3>4. \A i \in 1 .. Len(asked[f]) : PassedOver(asked[f][i])
      BY <2>1, <3>1, Zenon DEF AskedInOrder
    <3>5. IsInjective(asked'[f])
      <4>1. \A i \in 1 .. Len(asked[f]) : asked[f][i] # peer
        BY <3>3, <3>4, Zenon
      <4>2. IsInjective(asked[f])
        BY <3>1, Zenon DEF AskedInOrder
      <4> QED BY <2>3, <2>4, <4>1, <4>2, AppendFresh, Zenon
    <3>6. \A i \in 1 .. Len(asked'[f]) : PassedOver(asked'[f][i]) \/ asked'[f][i] = peer
      <4>1. asked[f] \in Seq(Peer) /\ asked'[f] = Append(asked[f], peer)
        BY <2>3, <2>4, Zenon
      <4>2. \A i \in 1 .. Len(asked'[f]) : (i \in 1 .. Len(asked[f]) /\ asked'[f][i] = asked[f][i]) \/ asked'[f][i] = peer
        BY <4>1
      <4> QED BY <3>4, <4>2, Zenon
    <3>7. request'[f].at = "asking" /\ request'[f].peer = peer
      BY <2>2, <2>3, <2>4, Zenon
    <3>8. request'[f].at # "next"
      BY <3>7
    <3> QED BY <1>n, <2>1, <2>p, <3>2, <3>5, <3>6, <3>7, <3>8, ZenonT(30) DEF AskedInOrder
  <2>5. updates = 0 => \A g \in Forward : g # f => asked'[g] = asked[g]
    BY <2>1, <2>a, Zenon DEF PeerTypes
  <2>6. r.at # "advance"
    BY SMTT(30), Z3T(30), Z3T(30), <2>2
  <2> QED BY <2>1, <2>3, <2>4, <2>5, <2>6, RequestMovesInv, Zenon
<1> QED BY <1>e, <1>n, Zenon

\* Where the request goes after it has advanced the sticky peer.
NextTry(r) == IF r.tries = 1 THEN [at |-> "done"] ELSE [at |-> "next", tries |-> r.tries - 1]

LEMMA NextTryFacts ==
  ASSUME PeerTypes, NEW f \in Forward, request[f].at = "advance"
  PROVE /\ NextTry(request[f]) \in PeerRequest /\ NextTry(request[f]).at \in {"done", "next"}
        /\ ~(request[f].tries > 1) => NextTry(request[f]).at = "done"
<1>1. request[f].tries \in Nat \ {0}
  BY RequestKinds, Zenon
<1> QED BY <1>1 DEF NextTry, PeerRequest

\* Another request has advanced the sticky peer already.
LEMMA AdvanceNotCurrent ==
  ASSUME PeersInv, NEW f \in Forward, request[f].at = "advance", remotes = <<>> \/ ~IsCurrent(request[f].peer),
         NEW r, r = NextTry(request[f]), RequestMoves(f, r), asked' = asked, unavailable' = unavailable
  PROVE PeersInv'
<1>1. /\ request' = [request EXCEPT ![f] = r] /\ remotes' = remotes /\ stickyPeerIndex' = stickyPeerIndex
  BY Zenon DEF RequestMoves
<1>2. ASSUME updates = 0
      PROVE r \in PeerRequest /\ r.at \in {"done", "next"} /\ request'[f] = r /\ asked' \in [Forward -> Seq(Peer)]
  <2>1. PeerTypes
    BY <1>2, Zenon DEF PeersInv
  <2> QED BY <1>1, <2>1, NextTryFacts, Zenon DEF PeerTypes
<1>3. ASSUME updates = 0, f \notin mixed PROVE AskedInOrder(f)'
  <2>1. AskedInOrder(f)
    BY <1>3, Zenon DEF PeersInv
  <2>2. \A p : PassedOver(p)' <=> PassedOver(p)
    BY <1>1, Zenon DEF PassedOver
  <2>3. request[f].at \in {"asking", "advance"}
    OBVIOUS
  <2>4. PassedOver(request[f].peer)
    BY <2>1, <2>3, Zenon DEF AskedInOrder, IsCurrent
  <2>5. \A i \in 1 .. Len(asked[f]) : PassedOver(asked[f][i])
    BY <2>1, <2>3, <2>4, Zenon DEF AskedInOrder
  <2>6. request'[f].at \notin {"asking", "advance"}
    BY <1>2, <1>3
  <2>7. IsInjective(asked[f])
    BY <2>1, Zenon DEF AskedInOrder
  <2> QED BY <2>2, <2>5, <2>6, <2>7, Zenon DEF AskedInOrder
<1>4. updates = 0 => r.at # "advance"
  BY <1>2
<1> QED BY <1>2, <1>3, <1>4, RequestMovesInv, Zenon

\* The sticky peer becomes the next of the remotes.
LEMMA AdvanceToNext ==
  ASSUME PeersInv, NEW f \in Forward, request[f].at = "advance", remotes # <<>>, IsCurrent(request[f].peer),
         stickyPeerIndex < Len(remotes), stickyPeerIndex' = NextIndex(stickyPeerIndex),
         NEW r, r = NextTry(request[f]), request' = [request EXCEPT ![f] = r],
         remotes' = remotes, mixed' = mixed, unavailable' = unavailable, asked' = asked, updates' = updates,
         peerBound' = peerBound
  PROVE PeersInv'
<1>1. mixed' \subseteq Forward /\ mixed \subseteq mixed'
  BY Zenon DEF PeersInv, UpdatesMix
<1>2. ASSUME updates = 0
      PROVE PeerTypes' /\ PeerSeqs' /\ FoundUnavailable' /\ \A g \in Forward \ mixed' : AskedInOrder(g)'
  <2>a. PeerTypes /\ PeerSeqs /\ FoundUnavailable /\ \A g \in Forward \ mixed : AskedInOrder(g)
    BY <1>2, Zenon DEF PeersInv
  <2>b. r \in PeerRequest /\ r.at \in {"done", "next"}
    BY <2>a, NextTryFacts, Zenon
  <2>c. request'[f] = r /\ \A g \in Forward : g # f => request'[g] = request[g]
    BY <2>a, Zenon DEF PeerTypes
  <2>d. stickyPeerIndex \in Nat /\ stickyPeerIndex > 0 /\ stickyPeerIndex' = stickyPeerIndex + 1 /\ Len(remotes) \in Nat
    BY <2>a DEF PeerSeqs, NextIndex
  <2>1. PeerTypes'
    BY <2>a, <2>b, Zenon DEF PeerTypes
  <2>2. PeerSeqs'
    BY SMTT(30), Z3T(30), <2>a, <2>d DEF PeerSeqs
  <2>e. \A i \in 1 .. stickyPeerIndex' - 1 : i \in 1 .. stickyPeerIndex - 1 \/ i = stickyPeerIndex
    BY <2>d
  <2>f. \A i \in 1 .. stickyPeerIndex - 1 : i \in 1 .. stickyPeerIndex' - 1
    BY SMTT(30), Z3T(30), <2>d
  <2>g. stickyPeerIndex \in 1 .. stickyPeerIndex' - 1
    BY <2>d
  <2>3. FoundUnavailable'
    <3>1. ASSUME NEW g \in Forward, request'[g].at = "advance" PROVE request'[g].peer \in unavailable'
      <4>1. g # f
        BY SMTT(30), Z3T(30), <2>b, <2>c, <3>1
      <4>2. request'[g] = request[g] /\ request[g].at = "advance"
        BY <2>c, <3>1, <4>1, Zenon
      <4>3. request[g].peer \in unavailable
        BY <2>a, <4>2, Zenon DEF FoundUnavailable
      <4> QED BY SMTT(30), Z3T(30), <4>2, <4>3
    <3>2. remotes[stickyPeerIndex] \in unavailable
      BY <2>a, Zenon DEF FoundUnavailable, IsCurrent
    <3>3. \A i \in 1 .. stickyPeerIndex' - 1 : remotes'[i] \in unavailable'
      BY <2>a, <2>e, <3>2, Zenon DEF FoundUnavailable
    <3> QED BY <3>1, <3>3, Zenon DEF FoundUnavailable
  <2>4. ASSUME NEW g \in Forward, g \notin mixed' PROVE AskedInOrder(g)'
    <3>1. AskedInOrder(g)
      BY <2>4, <2>a, Zenon
    <3>2. \A p : PassedOver(p) => PassedOver(p)'
      BY <2>f, Zenon DEF PassedOver
    <3>3. PICK q : q = remotes[stickyPeerIndex]
      OBVIOUS
    <3>4. PassedOver(q)'
      BY <2>g, <3>3, Zenon DEF PassedOver
    <3>5. request[f].peer = q /\ request[f].at \in {"asking", "advance"}
      BY <3>3 DEF IsCurrent
    <3>6. IsInjective(asked[g])
      BY <3>1, Zenon DEF AskedInOrder
    <3>7. CASE g = f
      <4>1. request'[g].at \notin {"asking", "advance"}
        BY <2>b, <2>c, <3>7
      <4>2. \A i \in 1 .. Len(asked[g]) : PassedOver(asked[g][i])'
        <5>1. \A i \in 1 .. Len(asked[g]) : PassedOver(asked[g][i]) \/ asked[g][i] = q
          BY <3>1, <3>5, <3>7, Zenon DEF AskedInOrder
        <5> SUFFICES ASSUME NEW i \in 1 .. Len(asked[g]) PROVE PassedOver(asked[g][i])'
          BY SMTT(30), Z3T(30), Z3T(30)
        <5>2. PICK p : p = asked[g][i]
          OBVIOUS
        <5>3. PassedOver(p)'
          BY <3>2, <3>4, <5>1, <5>2, Zenon
        <5> QED BY <5>2, <5>3, Zenon DEF PassedOver
      <4> QED BY <3>6, <4>1, <4>2, Zenon DEF AskedInOrder
    <3>8. CASE g # f
      <4>1. request'[g] = request[g]
        BY <2>c, <3>8, Zenon
      <4>2. ASSUME request[g].at = "next", NEW i \in 1 .. Len(asked[g]) PROVE PassedOver(asked[g][i])'
        <5>1. PICK p : p = asked[g][i]
          OBVIOUS
        <5>2. PassedOver(p)'
          BY <3>1, <3>2, <4>2, <5>1, Zenon DEF AskedInOrder
        <5> QED BY <5>1, <5>2, Zenon DEF PassedOver
      <4>3. ASSUME request[g].at \in {"asking", "advance"} PROVE PassedOver(request[g].peer)'
        <5>1. PICK p : p = request[g].peer
          OBVIOUS
        <5>2. PassedOver(p)'
          BY <3>1, <3>2, <3>3, <3>4, <4>3, <5>1, Zenon DEF AskedInOrder
        <5> QED BY <4>1, <5>1, <5>2, Zenon DEF PassedOver
      <4>4. ASSUME request[g].at \in {"asking", "advance"}, NEW i \in 1 .. Len(asked[g])
            PROVE PassedOver(asked[g][i])' \/ asked[g][i] = request[g].peer
        <5>1. PICK p : p = asked[g][i]
          OBVIOUS
        <5>2. PassedOver(p)' \/ p = request[g].peer
          BY <3>1, <3>2, <4>4, <5>1, Zenon DEF AskedInOrder
        <5> QED BY <5>1, <5>2, Zenon DEF PassedOver
      <4> QED BY <3>6, <4>1, <4>2, <4>3, <4>4, Zenon DEF AskedInOrder
    <3> QED BY <3>7, <3>8, Zenon
  <2> QED BY <2>1, <2>2, <2>3, <2>4, Zenon
<1> QED BY <1>1, <1>2, NotMixed, Zenon

\* Behind the last of the remotes they are shuffled, and the requests under way are mixed.
LEMMA AdvanceToShuffle ==
  ASSUME PeersInv, NEW f \in Forward, request[f].at = "advance", remotes # <<>>,
         stickyPeerIndex' = 1, remotes' \in Shuffles(Range(remotes)), Shuffled(f),
         NEW r, r = NextTry(request[f]), request' = [request EXCEPT ![f] = r],
         asked' = asked, updates' = updates, peerBound' = peerBound
  PROVE PeersInv'
<1>1. mixed' \subseteq Forward /\ mixed \subseteq mixed'
  BY DEF PeersInv, UpdatesMix, Shuffled
<1>2. ASSUME updates = 0
      PROVE PeerTypes' /\ PeerSeqs' /\ FoundUnavailable' /\ \A g \in Forward \ mixed' : AskedInOrder(g)'
  <2>a. PeerTypes /\ PeerSeqs /\ \A g \in Forward \ mixed : AskedInOrder(g)
    BY <1>2, Zenon DEF PeersInv
  <2>b. /\ r \in PeerRequest /\ r.at \in {"done", "next"} /\ (~(request[f].tries > 1) => r.at = "done")
    BY <2>a, NextTryFacts, Zenon
  <2>c. request'[f] = r /\ \A g \in Forward : g # f => request'[g] = request[g]
    BY <2>a, Zenon DEF PeerTypes
  <2>1. PeerTypes'
    BY <2>a, <2>b, Zenon DEF PeerTypes
  <2>2. PeerSeqs'
    <3>1. IsFiniteSet(Range(remotes)) /\ Range(remotes) \subseteq Peer /\ Range(remotes) # {}
      BY <2>a, FiniteMembers, Zenon DEF PeerSeqs
    <3>2. remotes' \in Seq(Range(remotes)) /\ IsInjective(remotes') /\ remotes' # <<>>
      BY <3>1, ShuffleFacts, Zenon
    <3> QED BY <3>1, <3>2 DEF PeerSeqs
  <2>3. FoundUnavailable'
    <3>1. ASSUME NEW g \in Forward, request'[g].at = "advance" PROVE request'[g].peer \in unavailable'
      <4>1. g # f
        BY SMTT(30), Z3T(30), <2>b, <2>c, <3>1
      <4>2. request'[g] = request[g] /\ request[g].at = "advance"
        BY <2>c, <3>1, <4>1, Zenon
      <4>3. request[g].peer \in unavailable'
        BY <4>1, <4>2, Zenon DEF Shuffled
      <4> QED BY <4>2, <4>3, Zenon
    <3>2. 1 .. stickyPeerIndex' - 1 = {}
      OBVIOUS
    <3> QED BY <3>1, <3>2, Zenon DEF FoundUnavailable
  <2>4. ASSUME NEW g \in Forward, g \notin mixed' PROVE AskedInOrder(g)'
    <3>1. AskedInOrder(g)
      BY <1>1, <2>4, <2>a, Zenon
    <3>2. IsInjective(asked[g])
      BY <3>1, Zenon DEF AskedInOrder
    <3>3. request[g].at \in {"idle", "done"} \/ (g = f /\ ~(request[g].tries > 1))
      BY <2>4, Zenon DEF Shuffled
    <3>4. request'[g].at \in {"idle", "done"}
      BY SMTT(30), Z3T(30), Z3T(30), <2>b, <2>c, <3>3
    <3>5. request'[g].at # "next" /\ request'[g].at \notin {"asking", "advance"}
      BY <3>4
    <3> QED BY <3>2, <3>5, Zenon DEF AskedInOrder
  <2> QED BY <2>1, <2>2, <2>3, <2>4, Zenon
<1> QED BY <1>1, <1>2, NotMixed, Zenon

LEMMA AdvanceStickyPeerInv ==
  ASSUME PeersInv, NEW f \in Forward, AdvanceStickyPeer(f), UNCHANGED peerBound
  PROVE PeersInv'
<1>0. PICK r : r = NextTry(request[f])
  BY ZenonT(30)
<1>1. /\ request[f].at = "advance" /\ request' = [request EXCEPT ![f] = r]
      /\ asked' = asked /\ updates' = updates /\ peerBound' = peerBound
  BY <1>0 DEF AdvanceStickyPeer, NextTry
<1>2. CASE remotes = <<>> \/ ~IsCurrent(request[f].peer)
  <2>1. RequestMoves(f, r) /\ unavailable' = unavailable
    BY <1>1, <1>2, Zenon DEF AdvanceStickyPeer, RequestMoves
  <2> QED BY <1>0, <1>1, <1>2, <2>1, AdvanceNotCurrent, Zenon
<1>3. CASE ~(remotes = <<>> \/ ~IsCurrent(request[f].peer)) /\ stickyPeerIndex < Len(remotes)
  <2>1. stickyPeerIndex' = NextIndex(stickyPeerIndex) /\ remotes' = remotes /\ mixed' = mixed /\ unavailable' = unavailable
    BY <1>3 DEF AdvanceStickyPeer
  <2> QED BY <1>0, <1>1, <1>3, <2>1, AdvanceToNext, ZenonT(30)
<1>4. CASE ~(remotes = <<>> \/ ~IsCurrent(request[f].peer)) /\ ~(stickyPeerIndex < Len(remotes))
  <2>1. stickyPeerIndex' = 1 /\ remotes' \in Shuffles(Range(remotes)) /\ Shuffled(f)
    BY <1>4, Zenon DEF AdvanceStickyPeer
  <2> QED BY <1>0, <1>1, <1>4, <2>1, AdvanceToShuffle, Zenon
<1> QED BY <1>2, <1>3, <1>4, Zenon

LEMMA PeerNextInv ==
  ASSUME PeersInv, [PeerNext]_<<peerVars, peerBound>>
  PROVE PeersInv'
<1>1. CASE UNCHANGED <<peerVars, peerBound>>
  <2>1. /\ remotes' = remotes /\ stickyPeerIndex' = stickyPeerIndex /\ request' = request /\ asked' = asked
        /\ mixed' = mixed /\ unavailable' = unavailable /\ updates' = updates /\ peerBound' = peerBound
    BY <1>1 DEF peerVars
  <2>2. (\A p : PassedOver(p)' <=> PassedOver(p)) /\ (UpdatesMix => UpdatesMix') /\ (PeerTypes => PeerTypes')
        /\ (PeerSeqs => PeerSeqs') /\ (FoundUnavailable => FoundUnavailable')
    BY <2>1, Zenon DEF UpdatesMix, PeerTypes, PeerSeqs, FoundUnavailable, PassedOver
  <2>3. \A f : AskedInOrder(f) => AskedInOrder(f)'
    BY <2>1, <2>2, Zenon DEF AskedInOrder
  <2> QED BY <2>1, <2>2, <2>3, Zenon DEF PeersInv
<1>2. CASE PeerNext
  <2>0. UNCHANGED peerBound
    BY <1>2, Zenon DEF PeerNext
  <2>1. ASSUME NEW f \in Forward,
               StartForward(f) \/ AskPeer(f) \/ PeerAnswers(f) \/ PeerUnavailable(f) \/ AdvanceStickyPeer(f)
        PROVE PeersInv'
    BY <2>0, <2>1, StartForwardInv, AskPeerInv, PeerAnswersInv, PeerUnavailableInv, AdvanceStickyPeerInv, Zenon
  <2> QED BY <1>2, <2>0, <2>1, UpdateNodesInv, Zenon DEF PeerNext
<1> QED BY <1>1, <1>2, Zenon

\* A peer is passed over only after a request has found it unavailable, and a request that no shuffle
\* meets asks no node twice (stream_nodes.go:124-129, forwarder.go:37), for every number of nodes and
\* concurrent requests.
THEOREM NoPeerIsPassedOver == PeerSpec => []NoPeerPassedOver
<1>1. PeersInv => NoPeerPassedOver
  <2> SUFFICES ASSUME PeersInv PROVE NoPeerPassedOver
    OBVIOUS
  <2>1. peerBound.updates = 0 => updates = 0
    BY Zenon DEF PeersInv, UpdatesMix
  <2>2. ASSUME NEW f \in Forward \ mixed PROVE updates = 0
    BY DEF PeersInv, UpdatesMix
  <2> QED BY <2>1, <2>2, Zenon DEF NoPeerPassedOver, PeersInv, FoundUnavailable, AskedInOrder
<1> QED BY <1>1, PeerInitInv, PeerNextInv, PTL DEF PeerSpec
==============================================================================
