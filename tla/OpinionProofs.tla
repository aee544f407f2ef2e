---------------------------- MODULE OpinionProofs ----------------------------
(***************************************************************************)
(* For every set of peers and votes, all weights and both kinds of         *)
(* threshold: which opinion of a peer a node remembers, that no honest     *)
(* node overlooks a confirmation, that the weights add up, that main.go's  *)
(* counters match the nodes, and that confirmed colours agree.             *)
(***************************************************************************)
EXTENDS OpinionManager, InductionLemmas

\* As much of the shape of the state as does not need the sums of weights.
Shape ==
    /\ setting \in Settings
    /\ issued \in Universe
    /\ booked \in [Node -> SUBSET Message]
    /\ peerOpinions \in [Node -> [Peer -> [color : Colors, seq : Nat]]]
    /\ known = [n \in Node |-> known[n]]
    /\ approvalWeights = [n \in Node |-> approvalWeights[n]]
    /\ ownOpinion = [n \in Node |-> ownOpinion[n]]
    /\ colorConfirmed = [n \in Node |-> colorConfirmed[n]]

\* Nothing is ever assigned to an honest node.
HonestUntouched ==
    /\ assigning = [n \in Node |-> assigning[n]]
    /\ \A n \in Honest : assigning[n] = Undefined

IInv == Shape /\ HonestUntouched /\ LatestOpinion /\ NoMissedConfirmation

LEMMA MessageContent ==
    ASSUME Shape, NEW m \in Message
    PROVE  /\ issued[m].issuer \in Peer
           /\ issued[m].seq \in Nat /\ issued[m].seq > 0
           /\ issued[m].color \in Colors
  BY UniverseAssumption DEF Shape, Content

LEMMA InitIInv == Init => IInv
<1> SUFFICES ASSUME Init PROVE IInv
  OBVIOUS
<1>1. Shape
  <2>1. NoOpinion \in [color : Colors, seq : Nat]
    BY DEF NoOpinion, Colors
  <2> QED
    BY <2>1 DEF Init, Shape
<1>2. LatestOpinion
  BY DEF Init, LatestOpinion, VotesOf
<1>3. NoMissedConfirmation
  <2> SUFFICES ASSUME NEW n \in Honest
               PROVE  ~CheckColorConfirmed(known[n], approvalWeights[n], ownOpinion[n])
    BY DEF NoMissedConfirmation
  <2>1. n \in Node
    BY SettingsAssumption DEF Init, Honest
  <2>2. known[n] = {}
    BY <2>1 DEF Init
  <2>3. \A c, d : WeightOf(known[n], approvalWeights[n], c) = 0
                  /\ WeightOf(known[n] \ {d}, approvalWeights[n], c) = 0
    BY <2>2 DEF WeightOf
  <2> QED
    BY <2>3, WeightAssumption DEF CheckColorConfirmed
<1>4. HonestUntouched
  BY SettingsAssumption DEF Init, HonestUntouched, Honest
<1> QED
  BY <1>1, <1>2, <1>3, <1>4 DEF IInv

-----------------------------------------------------------------------------
(* What forming an opinion does to the memory of one node *)

\* Booking m adds at most m to the votes of its issuer, and none elsewhere.
LEMMA VotesAfter ==
    ASSUME Shape, NEW n \in Node, NEW m \in Message, FormOpinion(n, m)
    PROVE  \A k \in Node, p \in Peer :
              VotesOf(k, p)' =
                  IF k = n /\ p = issued[m].issuer /\ issued[m].color # Undefined
                  THEN VotesOf(k, p) \cup {m} ELSE VotesOf(k, p)
<1>1. /\ UNCHANGED issued
      /\ booked' = [booked EXCEPT ![n] = @ \cup {m}]
  BY DEF FormOpinion, Book
<1>2. \A k \in Node : booked'[k] = IF k = n THEN booked[k] \cup {m} ELSE booked[k]
  BY <1>1 DEF Shape
<1> QED
  BY <1>1, <1>2 DEF VotesOf

LEMMA IgnoreKeepsLatest ==
    ASSUME Shape, LatestOpinion, NEW n \in Node, NEW m \in Message,
           FormOpinion(n, m), Ignore(n, m)
    PROVE  LatestOpinion'
<1> DEFINE p == issued[m].issuer
<1>1. UNCHANGED <<issued, peerOpinions>>
  BY DEF FormOpinion, Book, Ignore
<1>2. ASSUME issued[m].color # Undefined
      PROVE  /\ VotesOf(n, p) # {}
             /\ issued[m].seq <= peerOpinions[n][p].seq
  <2>1. ~(issued[m].seq > peerOpinions[n][p].seq)
    BY <1>2 DEF Ignore, IsNews, LastOpinion
  <2>2. p \in Peer /\ issued[m].seq \in Nat /\ issued[m].seq > 0
        /\ peerOpinions[n][p].seq \in Nat
    BY MessageContent DEF Shape
  <2>3. peerOpinions[n][p] # NoOpinion
    BY <2>1, <2>2 DEF NoOpinion
  <2> QED
    BY <2>1, <2>2, <2>3 DEF LatestOpinion
<1> SUFFICES ASSUME NEW k \in Node, NEW q \in Peer
             PROVE  (IF VotesOf(k, q) = {}
                     THEN peerOpinions[k][q] = NoOpinion
                     ELSE \E v \in VotesOf(k, q) :
                             /\ \A x \in VotesOf(k, q) : issued[x].seq <= issued[v].seq
                             /\ peerOpinions[k][q] = [color |-> issued[v].color,
                                                      seq |-> issued[v].seq])'
  BY DEF LatestOpinion
<1>3. CASE k = n /\ q = p /\ issued[m].color # Undefined
  <2>1. VotesOf(k, q)' = VotesOf(k, q) \cup {m} /\ VotesOf(k, q)' # {}
    BY <1>3, VotesAfter
  <2>2. PICK v \in VotesOf(k, q) :
            /\ \A x \in VotesOf(k, q) : issued[x].seq <= issued[v].seq
            /\ peerOpinions[k][q] = [color |-> issued[v].color, seq |-> issued[v].seq]
    BY <1>2, <1>3 DEF LatestOpinion
  <2>3. issued[m].seq <= issued[v].seq
    BY <1>2, <1>3, <2>2
  <2>4. \A x \in VotesOf(k, q)' : issued[x].seq <= issued[v].seq
    BY <2>1, <2>2, <2>3
  <2> QED
    BY <1>1, <2>1, <2>2, <2>4
<1>4. CASE ~(k = n /\ q = p /\ issued[m].color # Undefined)
  <2>1. VotesOf(k, q)' = VotesOf(k, q)
    BY <1>4, VotesAfter
  <2> QED
    BY <1>1, <2>1 DEF LatestOpinion
<1> QED
  BY <1>3, <1>4

LEMMA NewsKeepsLatest ==
    ASSUME Shape, LatestOpinion, NEW n \in Node, NEW m \in Message,
           FormOpinion(n, m), IsNews(n, m), Remember(n, m)
    PROVE  LatestOpinion'
<1> DEFINE p == issued[m].issuer
<1>1. UNCHANGED issued
  BY DEF FormOpinion, Book
<1>2. p \in Peer
  BY MessageContent
<1>3. \A k \in Node, q \in Peer :
          peerOpinions'[k][q] = IF k = n /\ q = p
                                THEN [color |-> issued[m].color, seq |-> issued[m].seq]
                                ELSE peerOpinions[k][q]
  BY <1>2 DEF Remember, Shape
<1> SUFFICES ASSUME NEW k \in Node, NEW q \in Peer
             PROVE  (IF VotesOf(k, q) = {}
                     THEN peerOpinions[k][q] = NoOpinion
                     ELSE \E v \in VotesOf(k, q) :
                             /\ \A x \in VotesOf(k, q) : issued[x].seq <= issued[v].seq
                             /\ peerOpinions[k][q] = [color |-> issued[v].color,
                                                      seq |-> issued[v].seq])'
  BY DEF LatestOpinion
<1>4. CASE k = n /\ q = p
  <2>1. VotesOf(k, q)' = VotesOf(k, q) \cup {m}
    BY <1>2, <1>4, VotesAfter DEF IsNews
  <2>2. /\ issued[m].seq \in Nat /\ issued[m].seq > peerOpinions[n][p].seq
        /\ peerOpinions[n][p].seq \in Nat
    BY <1>2, MessageContent DEF IsNews, LastOpinion, Shape
  <2>3. \A x \in VotesOf(k, q) : x \in Message /\ issued[x].seq \in Nat
    BY MessageContent DEF VotesOf, Shape
  <2>4. \A x \in VotesOf(k, q) : issued[x].seq <= peerOpinions[n][p].seq
    <3>1. CASE VotesOf(k, q) = {}
      BY <3>1
    <3>2. CASE VotesOf(k, q) # {}
      <4>1. PICK v \in VotesOf(k, q) :
                /\ \A x \in VotesOf(k, q) : issued[x].seq <= issued[v].seq
                /\ peerOpinions[k][q] = [color |-> issued[v].color, seq |-> issued[v].seq]
        BY <3>2 DEF LatestOpinion
      <4>2. peerOpinions[n][p].seq = issued[v].seq
        BY <1>4, <4>1
      <4> QED
        BY <4>1, <4>2
    <3> QED
      BY <3>1, <3>2
  <2>5. \A x \in VotesOf(k, q)' : issued[x].seq <= issued[m].seq
    BY <2>1, <2>2, <2>3, <2>4
  <2> QED
    BY <1>1, <1>3, <1>4, <2>1, <2>5
<1>5. CASE ~(k = n /\ q = p)
  <2>1. VotesOf(k, q)' = VotesOf(k, q)
    BY <1>5, VotesAfter
  <2>2. peerOpinions'[k][q] = peerOpinions[k][q]
    BY <1>3, <1>5
  <2> QED
    BY <1>1, <2>1, <2>2 DEF LatestOpinion
<1> QED
  BY <1>4, <1>5

-----------------------------------------------------------------------------
LEMMA SettingStays == [Next]_vars => UNCHANGED setting
  BY DEF Next, FormOpinion, AssignColor, ColorAssigned, vars

LEMMA ShapeStays == Shape /\ [Next]_vars => Shape'
<1> SUFFICES ASSUME Shape, [Next]_vars PROVE Shape'
  OBVIOUS
<1> USE DEF Shape
<1>1. ASSUME NEW n \in Node, NEW m \in Message, FormOpinion(n, m) PROVE Shape'
  <2>1. /\ UNCHANGED <<setting, issued>> /\ booked' \in [Node -> SUBSET Message]
    BY <1>1 DEF FormOpinion, Book
  <2>2. CASE Ignore(n, m)
    BY <2>1, <2>2 DEF Ignore
  <2>3. ASSUME Remember(n, m)
        PROVE  peerOpinions' \in [Node -> [Peer -> [color : Colors, seq : Nat]]]
    BY <2>3, MessageContent DEF Remember
  <2>4. CASE Repeat(n, m)
    BY <2>1, <2>3, <2>4 DEF Repeat
  <2>5. CASE Vote(n, m)
    <3>1. peerOpinions' \in [Node -> [Peer -> [color : Colors, seq : Nat]]]
      BY <2>3, <2>5 DEF Vote
    <3>2. known' = [k \in Node |-> known'[k]]
      BY <2>5 DEF Vote
    <3>3. approvalWeights' = [k \in Node |-> approvalWeights'[k]]
      BY <2>5 DEF Vote
    <3>4. ownOpinion' = [k \in Node |-> ownOpinion'[k]]
      BY <2>5 DEF Vote
    <3>5. colorConfirmed' = [k \in Node |-> colorConfirmed'[k]]
      BY <2>5 DEF Vote, UpdateConfirmation
    <3> QED
      BY <2>1, <3>1, <3>2, <3>3, <3>4, <3>5
  <2> QED
    BY <1>1, <2>2, <2>4, <2>5 DEF FormOpinion, Book
<1>2. ASSUME NEW n \in Node, NEW c \in Color, AssignColor(n, c) PROVE Shape'
  BY <1>2 DEF AssignColor
<1>3. ASSUME NEW n \in Node, ColorAssigned(n) PROVE Shape'
  BY <1>3 DEF ColorAssigned
<1>4. CASE UNCHANGED vars
  BY <1>4 DEF vars
<1> QED
  BY <1>1, <1>2, <1>3, <1>4 DEF Next

LEMMA LatestStays == Shape /\ LatestOpinion /\ [Next]_vars => LatestOpinion'
<1> SUFFICES ASSUME Shape, LatestOpinion, [Next]_vars PROVE LatestOpinion'
  OBVIOUS
<1>1. ASSUME NEW n \in Node, NEW m \in Message, FormOpinion(n, m) PROVE LatestOpinion'
  <2>1. CASE Ignore(n, m)
    BY <1>1, <2>1, IgnoreKeepsLatest
  <2>2. CASE Repeat(n, m)
    BY <1>1, <2>2, NewsKeepsLatest DEF Repeat
  <2>3. CASE Vote(n, m)
    BY <1>1, <2>3, NewsKeepsLatest DEF Vote
  <2> QED
    BY <1>1, <2>1, <2>2, <2>3 DEF FormOpinion, Book
<1>2. ASSUME UNCHANGED <<issued, booked, peerOpinions>> PROVE LatestOpinion'
  BY <1>2 DEF LatestOpinion, VotesOf
<1> QED
  BY <1>1, <1>2 DEF Next, AssignColor, ColorAssigned, vars

\* Only a vote changes what is compared with the threshold, and it compares
\* again.  Colours are assigned to adversaries alone.
LEMMA ConfirmationStays ==
    Shape /\ HonestUntouched /\ NoMissedConfirmation /\ [Next]_vars
        => NoMissedConfirmation'
<1> SUFFICES ASSUME Shape, HonestUntouched, NoMissedConfirmation, [Next]_vars, NEW k \in Honest,
                    CheckColorConfirmed(known'[k], approvalWeights'[k], ownOpinion'[k])
             PROVE  colorConfirmed'[k]
  BY SettingStays DEF NoMissedConfirmation, CheckColorConfirmed, WeightOf, MaxOpinion, Honest, Absolute
<1>0. k \in Node
  BY SettingsAssumption DEF Shape, Honest
<1>1. ASSUME known'[k] = known[k], approvalWeights'[k] = approvalWeights[k],
             ownOpinion'[k] = ownOpinion[k], colorConfirmed'[k] = colorConfirmed[k]
      PROVE  colorConfirmed'[k]
  BY <1>1 DEF NoMissedConfirmation
<1>2. ASSUME NEW n \in Node, NEW m \in Message, FormOpinion(n, m)
      PROVE  colorConfirmed'[k]
  <2>1. CASE Ignore(n, m) \/ Repeat(n, m)
    BY <1>1, <2>1 DEF Ignore, Repeat
  <2>2. CASE Vote(n, m) /\ n = k
    <3> DEFINE K == known[n] \cup {issued[m].color}
               w == MovedWeights(n, m)
               new == IF n \in Honest THEN MaxOpinion(K, w) ELSE RunnerUp(K, w)
               kept == colorConfirmed[n] /\ new = ownOpinion[n]
    <3>1. known'[k] = K /\ approvalWeights'[k] = w /\ ownOpinion'[k] = new
      BY <1>0, <2>2 DEF Vote, Shape
    <3>2. colorConfirmed'[k] = (kept \/ (~kept /\ CheckColorConfirmed(K, w, new)))
      <4> HIDE DEF K, w, new
      <4>1. UpdateConfirmation(n, ownOpinion[n], new, K, w)
        BY <2>2 DEF Vote, K, w, new
      <4> QED
        BY <1>0, <2>2, <4>1 DEF UpdateConfirmation, Shape
    <3> HIDE DEF K, w, new, kept
    <3> QED
      BY <3>1, <3>2
  <2>3. CASE Vote(n, m) /\ n # k
    <3>1. /\ known'[k] = known[k] /\ approvalWeights'[k] = approvalWeights[k]
          /\ ownOpinion'[k] = ownOpinion[k]
      BY <1>0, <2>3 DEF Vote, Shape
    <3>2. colorConfirmed'[k] = colorConfirmed[k]
      BY <1>0, <2>3 DEF Vote, UpdateConfirmation, Shape
    <3> QED
      BY <1>1, <3>1, <3>2
  <2> QED
    BY <1>2, <2>1, <2>2, <2>3 DEF FormOpinion, Book
<1>3. ASSUME NEW n \in Node, NEW c \in Color, AssignColor(n, c)
      PROVE  colorConfirmed'[k]
  BY <1>1, <1>3 DEF AssignColor
<1>4. ASSUME NEW n \in Node, ColorAssigned(n)
      PROVE  colorConfirmed'[k]
  <2>1. n # k
    BY <1>4 DEF ColorAssigned, HonestUntouched
  <2> QED
    BY <1>0, <1>1, <1>4, <2>1 DEF ColorAssigned, Shape
<1>5. CASE UNCHANGED vars
  BY <1>1, <1>5 DEF vars
<1> QED
  BY <1>2, <1>3, <1>4, <1>5 DEF Next

LEMMA HonestStay == Shape /\ HonestUntouched /\ [Next]_vars => HonestUntouched'
<1> SUFFICES ASSUME Shape, HonestUntouched, [Next]_vars PROVE HonestUntouched'
  OBVIOUS
<1> USE SettingsAssumption, SettingStays DEF HonestUntouched, Honest, Shape
<1>1. ASSUME NEW n \in Node, NEW c \in Color, AssignColor(n, c) PROVE HonestUntouched'
  BY <1>1 DEF AssignColor
<1>2. ASSUME NEW n \in Node, ColorAssigned(n) PROVE HonestUntouched'
  BY <1>2 DEF ColorAssigned
<1>3. ASSUME UNCHANGED assigning PROVE HonestUntouched'
  BY <1>3
<1> QED
  BY <1>1, <1>2, <1>3 DEF Next, FormOpinion, Book, vars

LEMMA Invariance == Spec => []IInv
<1>1. IInv /\ [Next]_vars => IInv'
  BY ShapeStays, LatestStays, ConfirmationStays, HonestStay DEF IInv
<1> QED
  BY <1>1, InitIInv, PTL DEF Spec

-----------------------------------------------------------------------------
(* The weights of the colours *)

\* The peers whose opinion is c in the memory of n.
Backers(n, c) == {p \in Peer : peerOpinions[n][p].color = c}

\* The weights of one node w add up over the opinions o it remembers.
AddUp(w, o) == \A c \in Color : w[c] = Total(Weight, {p \in Peer : o[p].color = c})

Weighted ==
    /\ \A n \in Node : AddUp(approvalWeights[n], peerOpinions[n])
    /\ \A n \in Node : approvalWeights[n][Undefined] = 0

KnownFinite == \A n \in Node : IsFiniteSet(known[n])

WInv == IInv /\ TypeOK /\ Weighted /\ KnownFinite

\* In every nonempty finite set of colours one is the heaviest, and of several
\* the smallest number.
LEMMA HeaviestExists ==
    ASSUME NEW K \in SUBSET Color, IsFiniteSet(K), K # {}, NEW w \in [Colors -> Nat]
    PROVE  MaxOpinion(K, w) \in K
           /\ \A d \in K : w[MaxOpinion(K, w)] >= w[d]
<1> DEFINE Heavy(T, c) == \A d \in T : w[c] > w[d] \/ (w[c] = w[d] /\ c <= d)
           G == {T \in SUBSET K : T = {} \/ \E c \in T : Heavy(T, c)}
<1>0. \A c \in K : w[c] \in Nat /\ c \in Nat
  BY ColorAssumption DEF Colors
<1>1. {} \in G
  OBVIOUS
<1>2. ASSUME NEW T \in SUBSET K, NEW x \in K \ T, T \in G
      PROVE  T \cup {x} \in G
  <2>1. CASE T = {}
    <3>1. Heavy(T \cup {x}, x)
      BY <1>0, <2>1
    <3> QED
      BY <3>1
  <2>2. CASE T # {}
    <3>1. PICK c \in T : Heavy(T, c)
      BY <1>2, <2>2
    <3>2. c \in K /\ c # x
      BY <3>1
    <3>3. CASE w[c] > w[x] \/ (w[c] = w[x] /\ c <= x)
      <4>1. Heavy(T \cup {x}, c)
        BY <3>1, <3>3
      <4> QED
        BY <3>1, <4>1
    <3>4. CASE ~(w[c] > w[x] \/ (w[c] = w[x] /\ c <= x))
      <4>1. w[x] > w[c] \/ (w[x] = w[c] /\ x <= c)
        BY <1>0, <3>2, <3>4
      <4>2. \A d \in T : w[x] > w[d] \/ (w[x] = w[d] /\ x <= d)
        <5> TAKE d \in T
        <5>1. w[c] > w[d] \/ (w[c] = w[d] /\ c <= d)
          BY <3>1
        <5>2. w[c] \in Nat /\ w[d] \in Nat /\ w[x] \in Nat /\ c \in Nat /\ d \in Nat /\ x \in Nat
          BY <1>0, <3>2
        <5> QED
          BY <4>1, <5>1, <5>2
      <4>3. Heavy(T \cup {x}, x)
        BY <1>0, <4>2
      <4> QED
        BY <4>3
    <3> QED
      BY <3>3, <3>4
  <2> QED
    BY <2>1, <2>2
<1>3. K \in G
  <2> HIDE DEF G
  <2> QED
    BY <1>1, <1>2, FiniteSetInduction
<1>4. \E c \in K : Heavy(K, c)
  BY <1>3
<1>5. MaxOpinion(K, w) \in K /\ Heavy(K, MaxOpinion(K, w))
  <2>1. MaxOpinion(K, w) = CHOOSE c \in K : Heavy(K, c)
    BY DEF MaxOpinion
  <2> HIDE DEF Heavy
  <2> QED
    BY <1>4, <2>1
<1> QED
  BY <1>0, <1>5

\* Whom ShiftingOpinionManager backs is one of the colours, too.
LEMMA RunnerUpIn ==
    ASSUME NEW K \in SUBSET Color, IsFiniteSet(K), K # {}, NEW w \in [Colors -> Nat]
    PROVE  RunnerUp(K, w) \in K
<1> DEFINE L == K \ {MaxOpinion(K, w)}
<1>1. CASE Cardinality(K) > 1
  <2>1. L \in SUBSET Color /\ IsFiniteSet(L)
    BY FS_RemoveElement
  <2>2. L # {}
    <3> SUFFICES ASSUME L = {} PROVE FALSE
      OBVIOUS
    <3>1. K = {MaxOpinion(K, w)}
      OBVIOUS
    <3>2. Cardinality(K) = 1
      BY <3>1, FS_Singleton, Zenon
    <3> QED
      BY <1>1, <3>2
  <2>3. RunnerUp(K, w) = MaxOpinion(L, w)
    BY <1>1 DEF RunnerUp
  <2>4. MaxOpinion(L, w) \in L
    <3> HIDE DEF L
    <3> QED
      BY <2>1, <2>2, HeaviestExists
  <2> QED
    BY <2>3, <2>4
<1>2. CASE ~(Cardinality(K) > 1)
  BY <1>2, HeaviestExists DEF RunnerUp
<1> QED
  BY <1>1, <1>2

LEMMA TotalWeightNat ==
    ASSUME NEW S \in SUBSET Peer
    PROVE  IsFiniteSet(S) /\ Total(Weight, S) \in Nat
<1>1. IsFiniteSet(S)
  BY PeerAssumption, FS_Subset
<1> QED
  BY <1>1, WeightAssumption, SumType

\* What a node remembers of an issuer is a colour exactly when it has voted.
LEMMA VotedIsColored ==
    ASSUME IInv, NEW n \in Node, NEW p \in Peer
    PROVE  HasVoted(n, p) <=> peerOpinions[n][p].color # Undefined
<1>1. CASE VotesOf(n, p) = {}
  BY <1>1 DEF IInv, LatestOpinion, HasVoted, NoOpinion
<1>2. CASE VotesOf(n, p) # {}
  <2>1. PICK m \in VotesOf(n, p) :
            peerOpinions[n][p] = [color |-> issued[m].color, seq |-> issued[m].seq]
    BY <1>2 DEF IInv, LatestOpinion
  <2>2. m \in Message /\ issued[m].color # Undefined
    BY <2>1 DEF VotesOf, IInv, Shape
  <2>3. issued[m].seq > 0
    BY <2>2, MessageContent DEF IInv
  <2> QED
    BY <2>1, <2>2, <2>3 DEF HasVoted
<1> QED
  BY <1>1, <1>2

\* UpdateWeights keeps the weights of a node adding up, and natural numbers.
LEMMA MovedAddUp ==
    ASSUME WInv, NEW n \in Node, NEW m \in Message, Vote(n, m)
    PROVE  /\ MovedWeights(n, m) \in [Colors -> Nat]
           /\ AddUp(MovedWeights(n, m), peerOpinions'[n])
           /\ MovedWeights(n, m)[Undefined] = 0
<1> DEFINE p == issued[m].issuer
           new == issued[m].color
           old == peerOpinions[n][p].color
           a == approvalWeights[n]
           w == MovedWeights(n, m)
<1>1. p \in Peer /\ new \in Color /\ old \in Colors /\ new # old
  <2>1. Shape
    BY DEF WInv, IInv
  <2> QED
    BY <2>1, MessageContent DEF Vote, IsNews, LastOpinion, Colors, Shape
<1>2. a \in [Colors -> Nat] /\ Weight[p] \in Nat /\ Undefined \notin Color
  BY <1>1, WeightAssumption, ColorAssumption DEF WInv, TypeOK
<1>3. HasVoted(n, p) <=> old # Undefined
  BY <1>1, VotedIsColored DEF WInv
<1>4. \A q \in Peer : peerOpinions'[n][q].color = IF q = p THEN new ELSE peerOpinions[n][q].color
  BY <1>1 DEF Vote, Remember, WInv, IInv, Shape
<1> DEFINE B(c) == Backers(n, c)
           C(c) == {q \in Peer : peerOpinions'[n][q].color = c}
<1>5. \A c \in Color : a[c] = Total(Weight, B(c))
  BY DEF WInv, Weighted, AddUp, Backers
<1>6. \A c \in Colors : w[c] = a[c] + (IF c = new THEN Weight[p] ELSE 0)
                                  - (IF c = old /\ old # Undefined THEN Weight[p] ELSE 0)
  BY <1>1, <1>2, <1>3 DEF MovedWeights, LastOpinion
<1>7. w = [c \in Colors |-> w[c]]
  BY <1>1, <1>2 DEF MovedWeights, LastOpinion
<1>8. a[Undefined] = 0 /\ Undefined \in Colors
  BY DEF WInv, Weighted, Colors
<1> HIDE DEF w
<1>9. ASSUME NEW c \in Color
      PROVE  w[c] = Total(Weight, C(c)) /\ w[c] \in Nat
  <2>0. c \in Colors /\ c # Undefined /\ IsFiniteSet(B(c)) /\ Total(Weight, B(c)) \in Nat
    BY <1>2, TotalWeightNat DEF Colors, Backers
  <2>1. CASE c = new
    <3>1. C(c) = B(c) \cup {p}
      BY <1>1, <1>4, <2>1 DEF Backers
    <3>2. p \notin B(c)
      BY <1>1, <2>1 DEF Backers
    <3>3. Total(Weight, B(c) \cup {p}) = Total(Weight, B(c)) + Weight[p]
      <4>1. \A q \in B(c) \cup {p} : Weight[q] \in Int
        BY <1>1, WeightAssumption DEF Backers
      <4> HIDE DEF B
      <4> QED
        BY <2>0, <3>2, <4>1, SumAdd
    <3>4. Total(Weight, C(c)) = Total(Weight, B(c) \cup {p})
      BY <3>1, Zenon
    <3>5. w[c] = a[c] + Weight[p]
      BY <1>1, <1>2, <1>6, <2>0, <2>1
    <3> HIDE DEF a, B, C
    <3> QED
      BY <1>2, <1>5, <2>0, <3>3, <3>4, <3>5
  <2>2. CASE c = old
    <3>1. C(c) = B(c) \ {p} /\ p \in B(c)
      BY <1>1, <1>4, <2>2 DEF Backers
    <3>2. Total(Weight, B(c)) = Weight[p] + Total(Weight, B(c) \ {p})
      <4>1. \A q \in B(c) : Weight[q] \in Int
        BY WeightAssumption DEF Backers
      <4> HIDE DEF B
      <4> QED
        BY <2>0, <3>1, <4>1, SumTake
    <3>3. Total(Weight, C(c)) = Total(Weight, B(c) \ {p})
      BY <3>1, Zenon
    <3>4. Total(Weight, C(c)) \in Nat
      BY TotalWeightNat
    <3>5. w[c] = a[c] - Weight[p]
      BY <1>1, <1>2, <1>6, <2>0, <2>2
    <3> HIDE DEF a, B, C
    <3> QED
      BY <1>2, <1>5, <2>0, <3>2, <3>3, <3>4, <3>5
  <2>3. CASE c # new /\ c # old
    <3>1. C(c) = B(c)
      BY <1>1, <1>4, <2>3 DEF Backers
    <3>2. Total(Weight, C(c)) = Total(Weight, B(c))
      BY <3>1, Zenon
    <3>3. w[c] = a[c]
      BY <1>2, <1>6, <2>0, <2>3
    <3> HIDE DEF a, B, C
    <3> QED
      BY <1>5, <2>0, <3>2, <3>3
  <2> QED
    BY <2>1, <2>2, <2>3
<1>10. w[Undefined] = 0
  <2>1. Undefined # new
    BY <1>1, <1>2
  <2>2. w[Undefined] = a[Undefined] + 0 - 0
    BY <1>6, <1>8, <2>1
  <2> QED
    BY <1>8, <2>2
<1>11. w \in [Colors -> Nat]
  <2>1. \A c \in Colors : w[c] \in Nat
    <3> TAKE c \in Colors
    <3>1. CASE c \in Color
      BY <1>9, <3>1
    <3>2. CASE c = Undefined
      BY <1>10, <3>2
    <3> QED
      BY <3>1, <3>2 DEF Colors
  <2> QED
    BY <1>7, <2>1
<1>12. AddUp(w, peerOpinions'[n])
  BY <1>9 DEF AddUp
<1> QED
  BY <1>10, <1>11, <1>12 DEF w

\* The colours a node knows after a vote, and the one it then holds.
LEMMA VoteChoosesKnown ==
    ASSUME WInv, NEW n \in Node, NEW m \in Message, Vote(n, m)
    PROVE  /\ known'[n] \in SUBSET Color /\ IsFiniteSet(known'[n])
           /\ ownOpinion'[n] \in known'[n]
           /\ approvalWeights'[n] = MovedWeights(n, m)
           /\ known'[n] = known[n] \cup {issued[m].color}
<1> DEFINE K == known[n] \cup {issued[m].color}
           w == MovedWeights(n, m)
<1>1. issued[m].color \in Color
  <2>1. Shape
    BY DEF WInv, IInv
  <2> QED
    BY <2>1, MessageContent DEF Vote, IsNews, Colors
<1>2. K \in SUBSET Color /\ IsFiniteSet(K) /\ K # {}
  BY <1>1, FS_AddElement DEF WInv, TypeOK, KnownFinite
<1>3. w \in [Colors -> Nat]
  BY MovedAddUp
<1>4. /\ known'[n] = K /\ approvalWeights'[n] = w
      /\ ownOpinion'[n] = IF n \in Honest THEN MaxOpinion(K, w) ELSE RunnerUp(K, w)
  BY DEF Vote, WInv, IInv, Shape
<1> HIDE DEF K, w
<1>5. ownOpinion'[n] \in K
  BY <1>2, <1>3, <1>4, HeaviestExists, RunnerUpIn
<1> QED
  BY <1>2, <1>4, <1>5 DEF K, w

LEMMA InitWInv == Init => WInv
<1> SUFFICES ASSUME Init PROVE WInv
  OBVIOUS
<1>1. IInv
  BY InitIInv
<1>2. TypeOK
  <2>1. issued \in [Message -> Content]
    BY UniverseAssumption DEF Init
  <2>2. Cardinality(Node) \in Int
    BY PeerAssumption, FS_Subset, FS_CardinalityType
  <2>3. opinions \in [Colors -> Int] /\ confirmedNodes \in [Colors -> Int]
    BY <2>2 DEF Init
  <2>4. peerOpinions \in [Node -> [Peer -> [color : Colors, seq : Nat]]]
    BY <1>1 DEF IInv, Shape
  <2>5. approvalWeights \in [Node -> [Colors -> Nat]]
    BY DEF Init
  <2> QED
    BY <2>1, <2>3, <2>4, <2>5 DEF Init, TypeOK, Colors
<1>3. Weighted
  <2>1. ASSUME NEW n \in Node, NEW c \in Color
        PROVE  approvalWeights[n][c] = Total(Weight, {p \in Peer : peerOpinions[n][p].color = c})
    <3>1. {p \in Peer : peerOpinions[n][p].color = c} = {}
      BY ColorAssumption DEF Init, NoOpinion
    <3>2. Total(Weight, {p \in Peer : peerOpinions[n][p].color = c}) = Total(Weight, {})
      BY <3>1, Zenon
    <3>3. approvalWeights[n][c] = 0
      BY DEF Init, Colors
    <3> QED
      BY <3>2, <3>3, SumEmpty
  <2>2. \A n \in Node : approvalWeights[n][Undefined] = 0
    BY DEF Init, Colors
  <2> QED
    BY <2>1, <2>2 DEF Weighted, AddUp
<1>4. KnownFinite
  BY FS_EmptySet DEF Init, KnownFinite
<1> QED
  BY <1>1, <1>2, <1>3, <1>4 DEF WInv

\* The handler of OpinionChanged takes one node from one counter to another.
LEMMA CountsMove ==
    ASSUME opinions \in [Colors -> Int], NEW old \in Colors, NEW new \in Colors,
           CountOpinionChange(old, new)
    PROVE  /\ opinions' \in [Colors -> Int]
           /\ \A c \in Colors : opinions'[c] = opinions[c] + (IF c = new THEN 1 ELSE 0)
                                                         - (IF c = old THEN 1 ELSE 0)
<1>1. CASE old = new
  BY <1>1 DEF CountOpinionChange
<1>2. CASE old # new
  <2>1. opinions' = [opinions EXCEPT ![old] = opinions[old] - 1, ![new] = opinions[new] + 1]
    BY <1>2 DEF CountOpinionChange
  <2> QED
    BY <1>2, <2>1
<1> QED
  BY <1>1, <1>2

LEMMA VoteCounts ==
    ASSUME Shape, NEW n \in Node, NEW m \in Message, Vote(n, m)
    PROVE  CountOpinionChange(ownOpinion[n], ownOpinion'[n])
  BY DEF Vote, Shape

LEMMA VoteKeepsTypes ==
    ASSUME WInv, NEW n \in Node, NEW m \in Message, FormOpinion(n, m), Vote(n, m), IInv'
    PROVE  TypeOK'
<1>0. TypeOK
  BY DEF WInv
<1>1. /\ setting' \in Settings /\ issued' \in [Message -> Content]
      /\ booked' \in [Node -> SUBSET Message]
      /\ assigned' \subseteq Node \ Honest' /\ assigning' \in [Node -> Colors]
  BY <1>0 DEF FormOpinion, Book, TypeOK, Honest
<1>2. peerOpinions' \in [Node -> [Peer -> [color : Colors, seq : Nat]]]
  BY DEF IInv, Shape
<1>3. /\ known'[n] \in SUBSET Color /\ ownOpinion'[n] \in Colors
      /\ approvalWeights'[n] \in [Colors -> Nat]
  BY VoteChoosesKnown, MovedAddUp DEF Colors
<1>4. /\ known' \in [Node -> SUBSET Color] /\ ownOpinion' \in [Node -> Colors]
      /\ approvalWeights' \in [Node -> [Colors -> Nat]]
  BY <1>0, <1>3 DEF Vote, TypeOK
<1>5. \A K, w, new : UpdateConfirmation(n, ownOpinion[n], new, K, w)
          => colorConfirmed' \in [Node -> BOOLEAN] /\ confirmedNodes' \in [Colors -> Int]
  <2> TAKE K, w, new
  <2> HAVE UpdateConfirmation(n, ownOpinion[n], new, K, w)
  <2>1. colorConfirmed' \in [Node -> BOOLEAN]
    BY <1>0, Zenon DEF UpdateConfirmation, TypeOK
  <2>2. confirmedNodes' \in [Colors -> Int]
    BY <1>0 DEF UpdateConfirmation, TypeOK
  <2> QED
    BY <2>1, <2>2
<1>6. colorConfirmed' \in [Node -> BOOLEAN] /\ confirmedNodes' \in [Colors -> Int]
  BY <1>5 DEF Vote
<1>7. opinions' \in [Colors -> Int]
  <2>1. ownOpinion[n] \in Colors /\ opinions \in [Colors -> Int]
    BY <1>0 DEF TypeOK
  <2>2. CountOpinionChange(ownOpinion[n], ownOpinion'[n])
    BY VoteCounts DEF WInv, IInv
  <2> QED
    BY <1>3, <2>1, <2>2, CountsMove
<1> QED
  BY <1>1, <1>2, <1>4, <1>6, <1>7 DEF TypeOK

LEMMA VoteKeepsWeights ==
    ASSUME WInv, NEW n \in Node, NEW m \in Message, Vote(n, m)
    PROVE  Weighted' /\ KnownFinite'
<1>1. /\ AddUp(approvalWeights'[n], peerOpinions'[n])
      /\ approvalWeights'[n][Undefined] = 0 /\ IsFiniteSet(known'[n])
  BY VoteChoosesKnown, MovedAddUp
<1>2. \A k \in Node \ {n} :
          /\ approvalWeights'[k] = approvalWeights[k] /\ peerOpinions'[k] = peerOpinions[k]
          /\ known'[k] = known[k]
  BY DEF Vote, Remember, WInv, TypeOK
<1>3. \A k \in Node \ {n} : AddUp(approvalWeights'[k], peerOpinions'[k])
  <2> TAKE k \in Node \ {n}
  <2>1. AddUp(approvalWeights[k], peerOpinions[k])
    BY DEF WInv, Weighted
  <2> QED
    BY <1>2, <2>1
<1>4. Weighted'
  BY <1>1, <1>2, <1>3 DEF WInv, Weighted
<1>5. KnownFinite'
  BY <1>1, <1>2 DEF WInv, KnownFinite
<1> QED
  BY <1>4, <1>5

\* A repeated opinion moves no weight.
LEMMA RepeatKeepsWeights ==
    ASSUME WInv, NEW n \in Node, NEW m \in Message, Repeat(n, m)
    PROVE  Weighted'
<1>1. issued[m].issuer \in Peer /\ UNCHANGED approvalWeights
  BY DEF Repeat, WInv, TypeOK, Content
<1>2. \A k \in Node, p \in Peer : peerOpinions'[k][p].color = peerOpinions[k][p].color
  BY <1>1 DEF Repeat, Remember, LastOpinion, WInv, TypeOK
<1>3. ASSUME NEW k \in Node, NEW c \in Color
      PROVE  approvalWeights'[k][c] = Total(Weight, {p \in Peer : peerOpinions'[k][p].color = c})
  <2>1. {p \in Peer : peerOpinions'[k][p].color = c} = {p \in Peer : peerOpinions[k][p].color = c}
    BY <1>2
  <2>2. approvalWeights[k][c] = Total(Weight, {p \in Peer : peerOpinions[k][p].color = c})
    BY DEF WInv, Weighted, AddUp
  <2> QED
    BY <1>1, <2>1, <2>2, Zenon
<1> QED
  BY <1>1, <1>3 DEF WInv, Weighted, AddUp

LEMMA StepWInv == WInv /\ [Next]_vars => WInv'
<1> SUFFICES ASSUME WInv, [Next]_vars PROVE WInv'
  OBVIOUS
<1>0. TypeOK /\ IInv'
  BY ShapeStays, LatestStays, ConfirmationStays, HonestStay DEF IInv, WInv
<1>1. ASSUME UNCHANGED <<approvalWeights, peerOpinions>> PROVE Weighted'
  BY <1>1 DEF WInv, Weighted
<1>2. ASSUME UNCHANGED known PROVE KnownFinite'
  BY <1>2 DEF WInv, KnownFinite
<1>3. ASSUME NEW n \in Node, NEW m \in Message, FormOpinion(n, m) PROVE WInv'
  <2>1. CASE Vote(n, m)
    BY <1>0, <1>3, <2>1, VoteKeepsTypes, VoteKeepsWeights DEF WInv
  <2>2. CASE Ignore(n, m)
    <3>1. TypeOK'
      BY <1>0, <1>3, <2>2 DEF Ignore, FormOpinion, Book, TypeOK, Honest
    <3> QED
      BY <1>0, <1>1, <1>2, <2>2, <3>1 DEF Ignore, WInv
  <2>3. CASE Repeat(n, m)
    <3>1. peerOpinions' \in [Node -> [Peer -> [color : Colors, seq : Nat]]]
      BY <1>0 DEF IInv, Shape
    <3>2. TypeOK'
      BY <1>0, <1>3, <2>3, <3>1 DEF Repeat, FormOpinion, Book, TypeOK, Honest
    <3> QED
      BY <1>0, <1>2, <2>3, <3>2, RepeatKeepsWeights DEF Repeat, WInv
  <2> QED
    BY <1>3, <2>1, <2>2, <2>3 DEF FormOpinion
<1>4. ASSUME NEW n \in Node, NEW c \in Color, AssignColor(n, c) PROVE WInv'
  <2>1. c \in Colors
    BY DEF Colors
  <2>2. opinions' \in [Colors -> Int]
    BY <1>0, <1>4, <2>1, CountsMove DEF AssignColor, TypeOK
  <2>3. TypeOK'
    BY <1>0, <1>4, <2>1, <2>2 DEF AssignColor, TypeOK, Honest
  <2> QED
    BY <1>0, <1>1, <1>2, <1>4, <2>3 DEF AssignColor, WInv
<1>5. ASSUME NEW n \in Node, ColorAssigned(n) PROVE WInv'
  <2>1. TypeOK'
    BY <1>0, <1>5 DEF ColorAssigned, TypeOK, Honest, Colors
  <2> QED
    BY <1>0, <1>1, <1>2, <1>5, <2>1 DEF ColorAssigned, WInv
<1>6. CASE UNCHANGED vars
  <2>1. TypeOK'
    BY <1>0, <1>6 DEF vars, TypeOK, Honest
  <2> QED
    BY <1>0, <1>1, <1>2, <1>6, <2>1 DEF vars, WInv
<1> QED
  BY <1>3, <1>4, <1>5, <1>6 DEF Next

LEMMA WeightInvariance == Spec => []WInv
  BY InitWInv, StepWInv, PTL DEF Spec

\* Two messages of one issuer have different numbers, so its newest vote is one.
LEMMA NewestVote ==
    ASSUME IInv, NEW n \in Node, NEW p \in Peer, NEW c \in Color
    PROVE  Votes(n, p, c) <=> peerOpinions[n][p].color = c
<1>1. CASE VotesOf(n, p) = {}
  BY <1>1, ColorAssumption DEF Votes, IInv, LatestOpinion, NoOpinion
<1>2. CASE VotesOf(n, p) # {}
  <2>1. PICK m \in VotesOf(n, p) :
            /\ \A k \in VotesOf(n, p) : issued[k].seq <= issued[m].seq
            /\ peerOpinions[n][p] = [color |-> issued[m].color, seq |-> issued[m].seq]
    BY <1>2 DEF IInv, LatestOpinion
  <2>2. \A k \in VotesOf(n, p) : k \in Message /\ issued[k].issuer = p /\ issued[k].seq \in Nat
    BY MessageContent DEF VotesOf, IInv, Shape
  <2>3. ASSUME NEW k \in VotesOf(n, p), \A v \in VotesOf(n, p) : issued[v].seq <= issued[k].seq
        PROVE  k = m
    <3>1. issued[k].seq = issued[m].seq
      BY <2>1, <2>2, <2>3
    <3>2. \A m1, m2 \in Message :
              issued[m1].issuer = issued[m2].issuer /\ issued[m1].seq = issued[m2].seq => m1 = m2
      BY UniverseAssumption DEF IInv, Shape
    <3> QED
      BY <2>1, <2>2, <3>1, <3>2
  <2> QED
    BY <2>1, <2>3 DEF Votes
<1> QED
  BY <1>1, <1>2

LEMMA WeightedAddsUp == WInv => WeightsAddUp
<1> SUFFICES ASSUME WInv, NEW n \in Node, NEW c \in Color
             PROVE  approvalWeights[n][c] = Total(Weight, {p \in Peer : Votes(n, p, c)})
  BY DEF WeightsAddUp, Total
<1>1. {p \in Peer : Votes(n, p, c)} = {p \in Peer : peerOpinions[n][p].color = c}
  BY NewestVote DEF WInv
<1>2. approvalWeights[n][c] = Total(Weight, {p \in Peer : peerOpinions[n][p].color = c})
  BY DEF WInv, Weighted, AddUp
<1> QED
  BY <1>1, <1>2, Zenon

-----------------------------------------------------------------------------
(* The colour counters *)

\* A colour on its way to a node was assigned to it.
AssignedFirst == \A n \in Node : assigning[n] # Undefined => n \in assigned

CInv == WInv /\ AssignedFirst /\ CountersMatchNodes

\* Two sets that differ in at most one element.
LEMMA OneApart ==
    ASSUME NEW S, NEW T, IsFiniteSet(S), NEW n, \A k : k # n => (k \in S <=> k \in T)
    PROVE  Cardinality(T) = Cardinality(S) + (IF n \in T THEN 1 ELSE 0)
                                           - (IF n \in S THEN 1 ELSE 0)
<1>0. Cardinality(S) \in Nat
  BY FS_CardinalityType
<1>1. CASE n \in S <=> n \in T
  <2>1. S = T
    BY <1>1
  <2> QED
    BY <1>0, <1>1, <2>1
<1>2. CASE n \in T /\ n \notin S
  <2>1. T = S \cup {n}
    BY <1>2
  <2>2. Cardinality(S \cup {n}) = Cardinality(S) + 1
    BY <1>2, FS_AddElement
  <2>3. Cardinality(T) = Cardinality(S) + 1
    BY <2>1, <2>2, Zenon
  <2> QED
    BY <1>0, <1>2, <2>3
<1>3. CASE n \in S /\ n \notin T
  <2>1. T = S \ {n}
    BY <1>3
  <2>2. Cardinality(S \ {n}) = Cardinality(S) - 1
    BY <1>3, FS_RemoveElement
  <2>3. Cardinality(T) = Cardinality(S) - 1
    BY <2>1, <2>2, Zenon
  <2> QED
    BY <1>0, <1>3, <2>3
<1> QED
  BY <1>1, <1>2, <1>3

Holders(c) == {k \in Node : ownOpinion[k] = c}
Confirmers(c) == {k \in Node : ownOpinion[k] = c /\ colorConfirmed[k]}

LEMMA HoldersFinite ==
    \A c : IsFiniteSet(Holders(c)) /\ IsFiniteSet(Confirmers(c))
<1>1. IsFiniteSet(Node)
  BY PeerAssumption, FS_Subset
<1> QED
  BY <1>1, FS_Subset DEF Holders, Confirmers

\* A vote takes at most one node from one counter to another.
LEMMA VoteKeepsCounters ==
    ASSUME WInv, CountersMatchNodes, assigned = {},
           NEW n \in Node, NEW m \in Message, Vote(n, m), NEW c \in Colors
    PROVE  /\ opinions'[c] = Cardinality(Holders(c)')
           /\ confirmedNodes'[c] = Cardinality(Confirmers(c)')
<1> DEFINE old == ownOpinion[n]
           new == ownOpinion'[n]
           was == colorConfirmed[n]
           is == colorConfirmed'[n]
<1>0. /\ ownOpinion \in [Node -> Colors] /\ colorConfirmed \in [Node -> BOOLEAN]
      /\ opinions \in [Colors -> Int] /\ confirmedNodes \in [Colors -> Int]
  BY DEF WInv, TypeOK
<1>1. old \in Colors /\ new \in Colors
  BY <1>0, VoteChoosesKnown DEF Colors
<1>2. \A k \in Node \ {n} : ownOpinion'[k] = ownOpinion[k] /\ colorConfirmed'[k] = colorConfirmed[k]
  BY <1>0 DEF Vote, UpdateConfirmation
<1>3. /\ opinions[c] = Cardinality(Holders(c))
      /\ confirmedNodes[c] = Cardinality(Confirmers(c))
  BY DEF CountersMatchNodes, Holders, Confirmers
<1>4. opinions'[c] = opinions[c] + (IF c = new THEN 1 ELSE 0) - (IF c = old THEN 1 ELSE 0)
  <2>1. CountOpinionChange(old, new)
    BY VoteCounts DEF WInv, IInv
  <2> QED
    BY <1>0, <1>1, <2>1, CountsMove
<1>5. Cardinality(Holders(c)') = Cardinality(Holders(c)) + (IF c = new THEN 1 ELSE 0)
                                                         - (IF c = old THEN 1 ELSE 0)
  <2>1. \A k : k # n => (k \in Holders(c) <=> k \in Holders(c)')
    BY <1>2 DEF Holders
  <2>2. (n \in Holders(c) <=> c = old) /\ (n \in Holders(c)' <=> c = new)
    BY DEF Holders
  <2>3. Cardinality(Holders(c)') = Cardinality(Holders(c))
            + (IF n \in Holders(c)' THEN 1 ELSE 0) - (IF n \in Holders(c) THEN 1 ELSE 0)
    BY <2>1, HoldersFinite, OneApart
  <2> QED
    BY <2>2, <2>3
<1>6. confirmedNodes'[c] = confirmedNodes[c] + (IF c = new /\ is THEN 1 ELSE 0)
                                             - (IF c = old /\ was THEN 1 ELSE 0)
  <2> DEFINE K == known[n] \cup {issued[m].color}
             w == MovedWeights(n, m)
             won == CheckColorConfirmed(K, w, new)
  <2>1. UpdateConfirmation(n, old, new, K, w)
    BY <1>0 DEF Vote
  <2> HIDE DEF K, w
  <2>2. is <=> (was /\ new = old) \/ (~(was /\ new = old) /\ won)
    BY <1>0, <2>1, Zenon DEF UpdateConfirmation
  <2>3. confirmedNodes'[c] = confirmedNodes[c]
            + ((IF ~(was /\ new = old) /\ won /\ c = new THEN 1 ELSE 0)
               - (IF was /\ new # old /\ c = old THEN 1 ELSE 0))
    BY <2>1 DEF UpdateConfirmation
  <2>4. confirmedNodes[c] \in Int
    BY <1>0
  <2> HIDE DEF won, is, was, new, old
  <2>5. CASE new = old /\ was
    BY <2>2, <2>3, <2>4, <2>5
  <2>6. CASE new = old /\ ~was
    BY <2>2, <2>3, <2>4, <2>6
  <2>7. CASE new # old
    BY <2>2, <2>3, <2>4, <2>7
  <2> QED
    BY <2>5, <2>6, <2>7
<1>7. Cardinality(Confirmers(c)') = Cardinality(Confirmers(c))
          + (IF c = new /\ is THEN 1 ELSE 0) - (IF c = old /\ was THEN 1 ELSE 0)
  <2>1. \A k : k # n => (k \in Confirmers(c) <=> k \in Confirmers(c)')
    BY <1>2 DEF Confirmers
  <2>2. (n \in Confirmers(c) <=> c = old /\ was) /\ (n \in Confirmers(c)' <=> c = new /\ is)
    BY DEF Confirmers
  <2>3. Cardinality(Confirmers(c)') = Cardinality(Confirmers(c))
            + (IF n \in Confirmers(c)' THEN 1 ELSE 0) - (IF n \in Confirmers(c) THEN 1 ELSE 0)
    BY <2>1, HoldersFinite, OneApart
  <2> HIDE DEF is, was, new, old
  <2> QED
    BY <2>2, <2>3
<1> QED
  BY <1>3, <1>4, <1>5, <1>6, <1>7

LEMMA InitCInv == Init => CInv
<1> SUFFICES ASSUME Init PROVE AssignedFirst /\ CountersMatchNodes
  BY InitWInv DEF CInv
<1>1. AssignedFirst
  BY DEF Init, AssignedFirst
<1>2. ASSUME NEW c \in Colors
      PROVE  opinions[c] = Cardinality(Holders(c)) /\ confirmedNodes[c] = Cardinality(Confirmers(c))
  <2>1. CASE c = Undefined
    <3>1. Holders(c) = Node /\ Confirmers(c) = {}
      BY <2>1 DEF Init, Holders, Confirmers
    <3>2. Cardinality(Holders(c)) = Cardinality(Node) /\ Cardinality(Confirmers(c)) = Cardinality({})
      BY <3>1, Zenon
    <3> QED
      BY <2>1, <3>2, FS_EmptySet DEF Init
  <2>2. CASE c # Undefined
    <3>1. Holders(c) = {} /\ Confirmers(c) = {}
      BY <2>2 DEF Init, Holders, Confirmers
    <3>2. Cardinality(Holders(c)) = Cardinality({}) /\ Cardinality(Confirmers(c)) = Cardinality({})
      BY <3>1, Zenon
    <3> QED
      BY <2>2, <3>2, FS_EmptySet DEF Init
  <2> QED
    BY <2>1, <2>2
<1> QED
  BY <1>1, <1>2 DEF CountersMatchNodes, Holders, Confirmers

LEMMA StepCInv == CInv /\ [Next]_vars => CInv'
<1> SUFFICES ASSUME CInv, [Next]_vars PROVE AssignedFirst' /\ CountersMatchNodes'
  BY StepWInv DEF CInv
<1>0. WInv /\ TypeOK /\ AssignedFirst /\ CountersMatchNodes
  BY DEF CInv, WInv
<1>1. ASSUME UNCHANGED <<ownOpinion, colorConfirmed, opinions, confirmedNodes, assigned, assigning>>
      PROVE  AssignedFirst' /\ CountersMatchNodes'
  <2>1. AssignedFirst'
    BY <1>0, <1>1 DEF AssignedFirst
  <2>2. CountersMatchNodes'
    BY <1>0, <1>1 DEF CountersMatchNodes
  <2> QED
    BY <2>1, <2>2
<1>2. ASSUME NEW n \in Node, NEW m \in Message, FormOpinion(n, m)
      PROVE  AssignedFirst' /\ CountersMatchNodes'
  <2>1. CASE Ignore(n, m) \/ Repeat(n, m)
    BY <1>1, <1>2, <2>1 DEF FormOpinion, Ignore, Repeat
  <2>2. CASE Vote(n, m)
    <3>1. AssignedFirst' /\ UNCHANGED assigned
      BY <1>0, <1>2 DEF FormOpinion, AssignedFirst
    <3>2. ASSUME assigned = {}, NEW c \in Colors
          PROVE  opinions'[c] = Cardinality(Holders(c)') /\ confirmedNodes'[c] = Cardinality(Confirmers(c)')
      BY <1>0, <2>2, <3>2, VoteKeepsCounters
    <3> QED
      BY <3>1, <3>2 DEF CountersMatchNodes, Holders, Confirmers
  <2> QED
    BY <1>2, <2>1, <2>2 DEF FormOpinion
<1>3. ASSUME NEW n \in Node, NEW c \in Color, AssignColor(n, c)
      PROVE  AssignedFirst' /\ CountersMatchNodes'
  <2>1. assigned' # {}
    BY <1>3 DEF AssignColor
  <2>2. AssignedFirst'
    BY <1>0, <1>3 DEF AssignColor, AssignedFirst, TypeOK
  <2> QED
    BY <2>1, <2>2 DEF CountersMatchNodes
<1>4. ASSUME NEW n \in Node, ColorAssigned(n)
      PROVE  AssignedFirst' /\ CountersMatchNodes'
  <2>1. n \in assigned' /\ assigned' = assigned
    BY <1>0, <1>4 DEF ColorAssigned, AssignedFirst
  <2>2. AssignedFirst'
    BY <1>0, <1>4, <2>1 DEF ColorAssigned, AssignedFirst, TypeOK
  <2> QED
    BY <2>1, <2>2 DEF CountersMatchNodes
<1> QED
  BY <1>1, <1>2, <1>3, <1>4 DEF Next, vars

LEMMA CounterInvariance == Spec => []CInv
  BY InitCInv, StepCInv, PTL DEF Spec

-----------------------------------------------------------------------------
(* Confirmed colours *)

\* No peer voices two colours.
OneVoice ==
    \A m1, m2 \in Message :
        /\ issued[m1].issuer = issued[m2].issuer
        /\ Undefined \notin {issued[m1].color, issued[m2].color}
        => issued[m1].color = issued[m2].color

\* More than Bar backs what an honest node has confirmed.  Without OneVoice the
\* weight may leave a colour that stays confirmed.
ConfirmedBacked ==
    OneVoice => \A n \in Honest : colorConfirmed[n] =>
                    ownOpinion[n] \in Color /\ approvalWeights[n][ownOpinion[n]] > Bar

AInv == WInv /\ ConfirmedBacked

LEMMA HonestNodes == ASSUME WInv PROVE Honest \subseteq Node
  BY SettingsAssumption DEF WInv, TypeOK, Honest

\* Whichever threshold is used, a colour that passes it has more than Bar.
LEMMA ThresholdPassed ==
    ASSUME NEW K \in SUBSET Color, NEW w \in [Colors -> Nat], NEW c \in K,
           CheckColorConfirmed(K, w, c)
    PROVE  w[c] > Bar
<1>1. WeightOf(K, w, c) = w[c] /\ w[c] \in Nat
  BY DEF WeightOf, Colors
<1>2. \A d : WeightOf(K, w, d) \in Nat
  BY DEF WeightOf, Colors
<1>3. CASE Absolute
  BY <1>1, <1>3 DEF CheckColorConfirmed
<1>4. CASE ~Absolute
  <2>1. WeightOf(K, w, MaxOpinion(K \ {c}, w)) \in Nat
    BY <1>2
  <2>2. w[c] - WeightOf(K, w, MaxOpinion(K \ {c}, w)) > Bar
    BY <1>1, <1>4 DEF CheckColorConfirmed
  <2> QED
    BY <1>1, <2>1, <2>2, WeightAssumption
<1> QED
  BY <1>3, <1>4

\* With one voice per peer, a vote is the first of its issuer: no weight leaves
\* a colour.
LEMMA FirstVote ==
    ASSUME WInv, OneVoice, NEW n \in Node, NEW m \in Message, Vote(n, m),
           NEW c \in Color
    PROVE  MovedWeights(n, m)[c] >= approvalWeights[n][c]
<1> DEFINE p == issued[m].issuer
<1>0. p \in Peer /\ issued[m].color \in Colors /\ issued[m].color # Undefined
  BY DEF WInv, TypeOK, Content, Vote, IsNews
<1>1. ~HasVoted(n, p)
  <2> SUFFICES ASSUME HasVoted(n, p) PROVE FALSE
    OBVIOUS
  <2>1. VotesOf(n, p) # {}
    BY <1>0 DEF WInv, IInv, LatestOpinion, HasVoted, NoOpinion
  <2>2. PICK k \in VotesOf(n, p) :
            peerOpinions[n][p] = [color |-> issued[k].color, seq |-> issued[k].seq]
    BY <1>0, <2>1 DEF WInv, IInv, LatestOpinion
  <2>3. k \in Message /\ issued[k].issuer = p /\ issued[k].color # Undefined
    BY <2>2 DEF VotesOf, WInv, TypeOK
  <2>4. issued[k].color = issued[m].color
    BY <1>0, <2>3 DEF OneVoice
  <2>5. issued[m].color # peerOpinions[n][p].color
    BY DEF Vote, LastOpinion
  <2> QED
    BY <2>2, <2>4, <2>5
<1>2. MovedWeights(n, m) = [approvalWeights[n] EXCEPT ![issued[m].color] = @ + Weight[p]]
  BY <1>1 DEF MovedWeights
<1>3. approvalWeights[n] \in [Colors -> Nat] /\ c \in Colors /\ Weight[p] \in Nat
  BY <1>0, WeightAssumption DEF WInv, TypeOK, Colors
<1> QED
  BY <1>0, <1>2, <1>3

LEMMA VoteKeepsBacked ==
    ASSUME AInv, OneVoice, NEW n \in Honest, NEW m \in Message, Vote(n, m),
           colorConfirmed'[n]
    PROVE  ownOpinion'[n] \in Color /\ approvalWeights'[n][ownOpinion'[n]] > Bar
<1> DEFINE K == known[n] \cup {issued[m].color}
           w == MovedWeights(n, m)
           old == ownOpinion[n]
           new == ownOpinion'[n]
<1>0. WInv /\ n \in Node
  BY HonestNodes DEF AInv
<1>1. /\ K \in SUBSET Color /\ new \in K /\ approvalWeights'[n] = w
      /\ w \in [Colors -> Nat]
  <2>1. known'[n] = K
    BY <1>0, VoteChoosesKnown
  <2> QED
    BY <1>0, <2>1, VoteChoosesKnown, MovedAddUp
<1>2. UpdateConfirmation(n, old, new, K, w)
  BY <1>0 DEF Vote, WInv, TypeOK
<1>3. (colorConfirmed[n] /\ new = old) \/ CheckColorConfirmed(K, w, new)
  <2> HIDE DEF K, w
  <2>1. colorConfirmed \in [Node -> BOOLEAN]
    BY <1>0 DEF WInv, TypeOK
  <2> QED
    BY <1>0, <1>2, <2>1, Zenon DEF UpdateConfirmation
<1>4. CASE CheckColorConfirmed(K, w, new)
  <2> HIDE DEF K, w
  <2> QED
    BY <1>1, <1>4, ThresholdPassed
<1>5. CASE colorConfirmed[n] /\ new = old
  <2>1. old \in Color /\ approvalWeights[n][old] > Bar
    BY <1>5 DEF AInv, ConfirmedBacked
  <2>2. w[old] >= approvalWeights[n][old]
    BY <1>0, <2>1, FirstVote
  <2>3. approvalWeights[n][old] \in Nat /\ w[old] \in Nat /\ Bar \in Nat
    BY <1>0, <1>1, <2>1, WeightAssumption DEF WInv, TypeOK, Colors
  <2> HIDE DEF w
  <2> QED
    BY <1>1, <1>5, <2>1, <2>2, <2>3
<1> QED
  BY <1>1, <1>3, <1>4, <1>5

LEMMA InitAInv == Init => AInv
<1> SUFFICES ASSUME Init PROVE ConfirmedBacked
  BY InitWInv DEF AInv
<1> QED
  BY SettingsAssumption DEF Init, ConfirmedBacked, Honest

LEMMA StepAInv == AInv /\ [Next]_vars => AInv'
<1> SUFFICES ASSUME AInv, [Next]_vars PROVE ConfirmedBacked'
  BY StepWInv DEF AInv
<1>0. WInv /\ UNCHANGED <<setting, issued>>
  BY DEF AInv, Next, FormOpinion, AssignColor, ColorAssigned, vars
<1> SUFFICES ASSUME OneVoice, NEW k \in Honest, colorConfirmed'[k]
             PROVE  ownOpinion'[k] \in Color /\ approvalWeights'[k][ownOpinion'[k]] > Bar
  BY <1>0 DEF ConfirmedBacked, OneVoice, Honest
<1>1. k \in Node
  BY <1>0, HonestNodes
<1>2. ASSUME approvalWeights'[k] = approvalWeights[k], ownOpinion'[k] = ownOpinion[k],
             colorConfirmed'[k] = colorConfirmed[k]
      PROVE  ownOpinion'[k] \in Color /\ approvalWeights'[k][ownOpinion'[k]] > Bar
  BY <1>2 DEF AInv, ConfirmedBacked
<1>3. ASSUME NEW n \in Node, NEW m \in Message, FormOpinion(n, m)
      PROVE  ownOpinion'[k] \in Color /\ approvalWeights'[k][ownOpinion'[k]] > Bar
  <2>1. CASE Ignore(n, m) \/ Repeat(n, m)
    BY <1>2, <2>1 DEF Ignore, Repeat
  <2>2. CASE Vote(n, m) /\ n = k
    BY <2>2, VoteKeepsBacked
  <2>3. CASE Vote(n, m) /\ n # k
    <3>1. approvalWeights'[k] = approvalWeights[k] /\ ownOpinion'[k] = ownOpinion[k]
      BY <1>0, <1>1, <2>3 DEF Vote, WInv, TypeOK
    <3>2. colorConfirmed'[k] = colorConfirmed[k]
      BY <1>0, <1>1, <2>3 DEF Vote, UpdateConfirmation, WInv, TypeOK
    <3> QED
      BY <1>2, <3>1, <3>2
  <2> QED
    BY <1>3, <2>1, <2>2, <2>3 DEF FormOpinion
<1>4. ASSUME NEW n \in Node, ColorAssigned(n)
      PROVE  ownOpinion'[k] \in Color /\ approvalWeights'[k][ownOpinion'[k]] > Bar
  <2>1. n # k
    BY <1>0, <1>4 DEF ColorAssigned, WInv, IInv, HonestUntouched
  <2>2. ownOpinion'[k] = ownOpinion[k]
    BY <1>0, <1>1, <1>4, <2>1 DEF ColorAssigned, WInv, TypeOK
  <2> QED
    BY <1>2, <1>4, <2>2 DEF ColorAssigned
<1> QED
  BY <1>2, <1>3, <1>4 DEF Next, AssignColor, vars

\* Two nodes cannot both find more than half of all weight behind different
\* colours: a peer that backs one colour anywhere backs no other elsewhere.
LEMMA BackedAgree == AInv => ConfirmedColorsAgree
<1> SUFFICES ASSUME AInv, OneVoice, 2 * Bar >= Total(Weight, Peer),
                    NEW n1 \in Honest, NEW n2 \in Honest, colorConfirmed[n1], colorConfirmed[n2],
                    ownOpinion[n1] # ownOpinion[n2]
             PROVE  FALSE
  BY DEF ConfirmedColorsAgree, OneVoice, Total
<1> DEFINE c1 == ownOpinion[n1]
           c2 == ownOpinion[n2]
           B1 == Backers(n1, c1)
           B2 == Backers(n2, c2)
<1>0. WInv /\ n1 \in Node /\ n2 \in Node
  BY HonestNodes DEF AInv
<1>1. /\ c1 \in Color /\ approvalWeights[n1][c1] > Bar
      /\ c2 \in Color /\ approvalWeights[n2][c2] > Bar
  BY DEF AInv, ConfirmedBacked
<1>2. approvalWeights[n1][c1] = Total(Weight, B1) /\ approvalWeights[n2][c2] = Total(Weight, B2)
  BY <1>0, <1>1 DEF WInv, Weighted, AddUp, Backers
<1>3. \A n \in Node, p \in Peer, c \in Color : peerOpinions[n][p].color = c =>
          \E m \in Message : issued[m].issuer = p /\ issued[m].color = c /\ c # Undefined
  <2> TAKE n \in Node, p \in Peer, c \in Color
  <2> HAVE peerOpinions[n][p].color = c
  <2>1. Votes(n, p, c)
    BY <1>0, NewestVote DEF WInv
  <2>2. booked[n] \subseteq Message
    BY <1>0 DEF WInv, TypeOK
  <2> QED
    BY <2>1, <2>2 DEF Votes, VotesOf
<1>4. B1 \cap B2 = {}
  <2> SUFFICES ASSUME NEW p \in Peer, peerOpinions[n1][p].color = c1, peerOpinions[n2][p].color = c2
               PROVE  FALSE
    BY DEF Backers
  <2>1. PICK k1 \in Message : issued[k1].issuer = p /\ issued[k1].color = c1 /\ c1 # Undefined
    BY <1>0, <1>1, <1>3
  <2>2. PICK k2 \in Message : issued[k2].issuer = p /\ issued[k2].color = c2 /\ c2 # Undefined
    BY <1>0, <1>1, <1>3
  <2> QED
    BY <2>1, <2>2 DEF OneVoice
<1>5. /\ B1 \in SUBSET Peer /\ B2 \in SUBSET Peer
      /\ IsFiniteSet(B1) /\ IsFiniteSet(B2)
      /\ Total(Weight, B1) \in Nat /\ Total(Weight, B2) \in Nat
  BY TotalWeightNat DEF Backers
<1> HIDE DEF B1, B2
<1>6. Total(Weight, B1 \cup B2) = Total(Weight, B1) + Total(Weight, B2)
  <2>1. \A p \in B1 \cup B2 : Weight[p] \in Int
    BY <1>5, WeightAssumption
  <2> QED
    BY <1>4, <1>5, <2>1, SumDisjoint
<1>7. Total(Weight, B1 \cup B2) <= Total(Weight, Peer)
  <2>1. B1 \cup B2 \in SUBSET Peer /\ \A p \in Peer : Weight[p] \in Nat
    BY <1>5, WeightAssumption
  <2> QED
    BY <2>1, PeerAssumption, SumSubset
<1>8. Total(Weight, Peer) \in Nat /\ Bar \in Nat
  BY TotalWeightNat, WeightAssumption
<1> HIDE DEF c1, c2
<1> QED
  BY <1>1, <1>2, <1>5, <1>6, <1>7, <1>8

LEMMA AgreementInvariance == Spec => []AInv
  BY InitAInv, StepAInv, PTL DEF Spec

-----------------------------------------------------------------------------
\* A node takes the colour of a peer's newest coloured message for the opinion
\* of that peer, whatever the order of arrival.
THEOREM NewestOpinionWins == Spec => []LatestOpinion
<1>1. IInv => LatestOpinion
  BY DEF IInv
<1> QED
  BY <1>1, Invariance, PTL

\* No honest node holds an opinion that has passed the threshold without
\* knowing it, with absolute and with relative thresholds.
THEOREM NoConfirmationMissed == Spec => []NoMissedConfirmation
<1>1. IInv => NoMissedConfirmation
  BY DEF IInv
<1> QED
  BY <1>1, Invariance, PTL

\* The state keeps its shape; in particular the weights stay natural numbers,
\* so the unsigned counters of the code never wrap around.
THEOREM TypeCorrect == Spec => []TypeOK
<1>1. WInv => TypeOK
  BY DEF WInv
<1> QED
  BY <1>1, WeightInvariance, PTL

\* The weight of a colour at a node is the weight of the peers whose newest
\* vote is for it, for any number of peers, weights and changes of mind.
THEOREM WeightsOfVoters == Spec => []WeightsAddUp
  BY WeightInvariance, WeightedAddsUp, PTL

\* As long as no colour was assigned from outside, main.go's counters say how
\* many nodes hold each opinion and how many have confirmed it.
THEOREM CountersRight == Spec => []CountersMatchNodes
<1>1. CInv => CountersMatchNodes
  BY DEF CInv
<1> QED
  BY <1>1, CounterInvariance, PTL

\* Two honest nodes never confirm different colours when no peer voices two and
\* the threshold is at least half of all weight.
THEOREM ColorsAgree == Spec => []ConfirmedColorsAgree
  BY AgreementInvariance, BackedAgree, PTL

=============================================================================
