-------------------------- MODULE TipManagerProofs --------------------------
(***************************************************************************)
(* Proofs about TipManager, for any colours, any number of messages, both  *)
(* tip selections and any numbers of parents.                              *)
(***************************************************************************)
EXTENDS TipManager, FiniteSetTheorems, TLAPS

-----------------------------------------------------------------------------
(* One tip set *)

\* Of the messages A, those in the history of colour c.
History(c, A) == {m \in A : issued[m].color \in {c, Undefined}}

\* The tip set s serves colour c well when the messages A were added, L of
\* them late.
Serves(s, c, A, L) ==
    /\ s \in TipSets
    /\ s.strongTips \cup s.validatorStrongTips \cup s.validatorValidationTips
          \subseteq History(c, A)
    /\ CoveredBy(s.strongTips, History(c, A))
    /\ CoveredBy(s.validatorStrongTips \cup s.validatorValidationTips, History(c, A))
    /\ \A m \in History(c, A) \ L :
          m \in s.strongTips <=> \A k \in History(c, A) : m \notin issued[k].strong

\* What AnalyzeMessage leaves in `late` when it adds m.
LateWith(m) ==
    IF m \in added \/ \E k \in added : m \in issued[k].strong
    THEN late \cup {m} ELSE late

\* Messages reference earlier ones, and what is not issued references nothing.
References ==
    /\ issued \in [Message -> Content]
    /\ \A m \in Message : \A p \in issued[m].strong : p < m
    /\ \A m \in Message : m > messageIDCounter => issued[m].strong = {}

\* Nothing but a new tip can cover what its parents covered.
LEMMA CoverMoves ==
    ASSUME References, NEW m \in Message, NEW tips \in SUBSET Message,
           NEW others \in SUBSET Message, NEW M \in SUBSET Message,
           CoveredBy(tips \cup others, M)
    PROVE  CoveredBy(((tips \cup {m}) \ issued[m].strong) \cup others, M \cup {m})
<1> SUFFICES ASSUME NEW S \in SUBSET Message,
                    ((tips \cup {m}) \ issued[m].strong) \cup others \subseteq S,
                    \A k \in S : issued[k].strong \subseteq S \cup {Genesis}
             PROVE  M \cup {m} \subseteq S
  BY DEF CoveredBy
<1>1. m \in S
  BY DEF References, Message
<1>2. tips \cup others \subseteq S
  BY <1>1 DEF Message, Genesis
<1> QED
  BY <1>1, <1>2 DEF CoveredBy

\* AddTip turns a set that serves c into one that serves c with m added.
LEMMA AddTipServes ==
    ASSUME References, MaxMessage \in Nat, NEW m \in Message,
           added \in SUBSET Message, late \in SUBSET added,
           NEW c, issued[m].color \in {c, Undefined},
           NEW s, Serves(s, c, added, late)
    PROVE  Serves(AddTip(s, m), c, added \cup {m}, LateWith(m))
<1> DEFINE t == AddTip(s, m)
           H == History(c, added)
           new(tips) == (tips \cup {m}) \ issued[m].strong
<1>1. s \in TipSets /\ H \in SUBSET Message /\ m \notin issued[m].strong
  <2>1. s \in TipSets
    BY DEF Serves
  <2>2. H \in SUBSET Message
    BY DEF History
  <2>3. m \notin issued[m].strong
    BY DEF References, Message
  <2> QED
    BY <2>1, <2>2, <2>3
<1>2. History(c, added \cup {m}) = H \cup {m}
  BY DEF History
<1>3. /\ t \in TipSets
      /\ t.strongTips = new(s.strongTips)
      /\ IF issued[m].validation
         THEN /\ t.validatorStrongTips = s.validatorStrongTips
              /\ t.validatorValidationTips = new(s.validatorValidationTips)
         ELSE /\ t.validatorStrongTips = new(s.validatorStrongTips)
              /\ t.validatorValidationTips = s.validatorValidationTips
  BY <1>1 DEF AddTip, TipSets
<1> HIDE DEF t
<1>4. t.strongTips \cup t.validatorStrongTips \cup t.validatorValidationTips \subseteq H \cup {m}
  BY <1>3 DEF Serves
<1>5. CoveredBy(t.strongTips, H \cup {m})
  <2>1. CoveredBy(s.strongTips \cup {}, H)
    BY DEF Serves
  <2>2. CoveredBy(new(s.strongTips) \cup {}, H \cup {m})
    BY <1>1, <2>1, CoverMoves DEF TipSets
  <2> QED
    BY <1>3, <2>2
<1>6. CoveredBy(t.validatorStrongTips \cup t.validatorValidationTips, H \cup {m})
  <2>1. /\ CoveredBy(s.validatorStrongTips \cup s.validatorValidationTips, H)
        /\ CoveredBy(s.validatorValidationTips \cup s.validatorStrongTips, H)
    <3>1. s.validatorStrongTips \cup s.validatorValidationTips
             = s.validatorValidationTips \cup s.validatorStrongTips
      OBVIOUS
    <3> QED
      BY <3>1 DEF Serves
  <2>2. CASE issued[m].validation
    <3>1. CoveredBy(new(s.validatorValidationTips) \cup s.validatorStrongTips, H \cup {m})
      BY <1>1, <2>1, CoverMoves DEF TipSets
    <3>2. t.validatorStrongTips \cup t.validatorValidationTips
             = new(s.validatorValidationTips) \cup s.validatorStrongTips
      BY <1>3, <2>2
    <3> QED
      BY <3>1, <3>2
  <2>3. CASE ~issued[m].validation
    <3>1. CoveredBy(new(s.validatorStrongTips) \cup s.validatorValidationTips, H \cup {m})
      BY <1>1, <2>1, CoverMoves DEF TipSets
    <3> QED
      BY <1>3, <2>3, <3>1
  <2> QED
    BY <2>2, <2>3
<1>7. ASSUME NEW k \in (H \cup {m}) \ LateWith(m)
      PROVE  k \in t.strongTips <=> \A j \in H \cup {m} : k \notin issued[j].strong
  <2>1. CASE k = m
    <3>1. m \notin added /\ \A j \in added : m \notin issued[j].strong
      BY <1>7, <2>1 DEF LateWith
    <3> QED
      BY <1>1, <1>3, <2>1, <3>1 DEF History
  <2>2. CASE k # m
    <3>1. k \in H \ late
      BY <1>7, <2>2 DEF LateWith
    <3>2. k \in s.strongTips <=> \A j \in H : k \notin issued[j].strong
      BY <3>1 DEF Serves
    <3> QED
      BY <1>3, <2>2, <3>2
  <2> QED
    BY <2>1, <2>2
<1> HIDE DEF H
<1> QED
  BY <1>2, <1>3, <1>4, <1>5, <1>6, <1>7 DEF Serves, t
-----------------------------------------------------------------------------
(* Type correctness *)

\* A message has a colour, and the contents of a message.
LEMMA NewMessageType ==
    ASSUME issued \in [Message -> Content],
           NEW strong \in SUBSET (Message \cup {Genesis}), NEW validation \in BOOLEAN,
           NEW payload \in Colors, NEW own \in BOOLEAN
    PROVE  NewMessage(strong, validation, payload, own) \in Content
<1> DEFINE met == ColorsMeeting(strong, payload)
           agree == \A c, d \in met : c = d
           color == IF agree /\ met # {} THEN CHOOSE c \in met : TRUE ELSE Undefined
<1>1. met \subseteq Colors
  <2>1. \A p \in strong \ {Genesis} : issued[p].color \in Colors
    BY DEF Content
  <2> QED
    BY <2>1 DEF ColorsMeeting
<1>2. color \in Colors
  <2>1. met # {} => (CHOOSE c \in met : TRUE) \in met
    OBVIOUS
  <2> HIDE DEF met
  <2> QED
    BY <1>1, <2>1 DEF Colors
<1>3. agree \in BOOLEAN
  OBVIOUS
<1>4. NewMessage(strong, validation, payload, own)
        = [strong |-> strong, validation |-> validation, payload |-> payload,
           color |-> color, valid |-> agree, own |-> own]
  BY DEF NewMessage
<1> HIDE DEF agree, color
<1> QED
  BY <1>2, <1>3, <1>4 DEF Content

\* TipSet and AddTip return tip sets.
LEMMA TipSetType ==
    ASSUME TypeOK, NEW c \in Colors
    PROVE  TipSet(c) \in TipSets
BY DEF TypeOK, TipSet, NewTipSet, TipSets, Colors

LEMMA AddTipType ==
    ASSUME NEW s \in TipSets, NEW m \in Message
    PROVE  AddTip(s, m) \in TipSets
BY DEF AddTip, TipSets

LEMMA MessagesFinite == IsFiniteSet(Message)
BY FS_Interval, MaxMessageAssumption DEF Message

\* The number of tips found is at most the number asked for.
LEMMA FoundType ==
    ASSUME TypeOK, NEW T \in SUBSET Message, NEW count \in Nat,
           Cardinality(T) <= count, NEW found \in SUBSET T
    PROVE  count - Cardinality(found) \in Nat
<1>1. IsFiniteSet(T)
  BY MessagesFinite, FS_Subset
<1>2. Cardinality(found) \in Nat /\ Cardinality(found) <= Cardinality(T)
        /\ Cardinality(T) \in Nat
  BY <1>1, FS_Subset, FS_CardinalityType
<1> QED
  BY <1>2

\* What a round draws from.
LEMMA PoolType ==
    ASSUME TypeOK
    PROVE  /\ Drawing \in Pools
           /\ Pool \in SUBSET Message
BY DEF TypeOK, Drawing, Pools, Pool, TipSets, Calls

\* A draw returns some of the tips, at most as many as asked, and none only if
\* there are none.
LEMMA DrawnTips ==
    ASSUME NEW tips \in SUBSET Message, NEW count \in Nat \ {0},
           NEW T \in RandomUniqueEntries(tips, count)
    PROVE  /\ T \subseteq tips
           /\ Cardinality(T) <= count
           /\ T = {} => tips = {}
<1>1. IsFiniteSet(T) /\ Cardinality(T) \in Nat
  BY MessagesFinite, FS_Subset, FS_CardinalityType DEF RandomUniqueEntries
<1> QED
  BY <1>1, FS_EmptySet DEF RandomUniqueEntries

LEMMA TypeCorrectInit == Init => TypeOK
BY MaxMessageAssumption
   DEF Init, TypeOK, Blank, Content, EmptyTipSet, TipSets, Colors, Calls, NoCall, NoneLeft

LEMMA TypeCorrectStep == TypeOK /\ [Next]_vars => TypeOK'
<1> SUFFICES ASSUME TypeOK, [Next]_vars
             PROVE  TypeOK'
  OBVIOUS
<1> USE MaxMessageAssumption DEF TypeOK
<1>1. ASSUME NEW strong \in SUBSET (Message \cup {Genesis}), NEW payload \in Colors,
             NEW validation \in BOOLEAN, IssueElsewhere(strong, validation, payload)
      PROVE  TypeOK'
  <2>1. NewMessage(strong, validation, payload, FALSE) \in Content
    BY NewMessageType
  <2>2. issued' \in [Message -> Content]
    BY <1>1, <2>1 DEF IssueElsewhere
  <2>3. messageIDCounter' \in 0 .. MaxMessage /\ messageIDCounter' = messageIDCounter + 1
    BY <1>1 DEF IssueElsewhere, Message
  <2>4. booked' \in SUBSET (1 .. messageIDCounter') /\ outdated' \in 0 .. messageIDCounter'
    BY <1>1, <2>3 DEF IssueElsewhere
  <2> QED
    BY <1>1, <2>2, <2>3, <2>4 DEF IssueElsewhere, selection
<1>2. ASSUME NEW m \in Message, Book(m)
      PROVE  TypeOK'
  BY <1>2 DEF Book, selection
<1>3. ASSUME NEW m \in Message, AnalyzeMessage(m)
      PROVE  TypeOK'
  <2>1. issued[m].color \in Colors
    BY DEF Content
  <2>2. \A d \in Colors : TipSet(d) \in TipSets /\ AddTip(TipSet(d), m) \in TipSets
    BY TipSetType, AddTipType
  <2>3. tipSets' \in [Colors -> TipSets]
    BY <1>3, <2>2 DEF AnalyzeMessage
  <2>4. /\ known' \in SUBSET Colors
        /\ scheduled' \in SUBSET booked
        /\ added' \in SUBSET scheduled'
        /\ late' \in SUBSET added'
    BY <1>3, <2>1 DEF AnalyzeMessage
  <2> QED
    BY <1>3, <2>3, <2>4 DEF AnalyzeMessage, selection
<1>4. ASSUME NEW validation \in BOOLEAN, NEW opinion \in Colors, Tips(validation, opinion)
      PROVE  TypeOK'
  <2>1. tipSets' \in [Colors -> TipSets] /\ known' \in SUBSET Colors
    BY <1>4, TipSetType DEF Tips
  <2>2. selecting' \in Calls
    BY <1>4 DEF Tips, Calls
  <2>3. left' \in [Pools -> Nat]
    BY <1>4, ParentCountAssumption DEF Tips, Wanted, NoneLeft
  <2>4. chosen' \in SUBSET (Message \cup {Genesis})
    BY <1>4 DEF Tips
  <2> QED
    BY <1>4, <2>1, <2>2, <2>3, <2>4 DEF Tips
<1>5. ASSUME NEW payload \in Colors, IssueMessage(payload)
      PROVE  TypeOK'
  <2>1. NewMessage(chosen, selecting.validation, payload, TRUE) \in Content
    <3>1. selecting.validation \in BOOLEAN
      BY DEF Calls
    <3> QED
      BY <3>1, NewMessageType
  <2>2. issued' \in [Message -> Content]
    BY <1>5, <2>1 DEF IssueMessage
  <2>5. messageIDCounter' \in 0 .. MaxMessage /\ messageIDCounter' = messageIDCounter + 1
    BY <1>5 DEF IssueMessage, Message
  <2>6. outdated' \in 0 .. messageIDCounter'
    BY <1>5, <2>5 DEF IssueMessage
  <2>7. booked' \in {booked, booked \cup {messageIDCounter + 1}}
    BY <1>5 DEF IssueMessage
  <2>3. booked' \in SUBSET (1 .. messageIDCounter') /\ booked \subseteq booked'
    BY <2>5, <2>7
  <2>4. selecting' \in Calls /\ left' \in [Pools -> Nat]
        /\ chosen' \in SUBSET (Message \cup {Genesis})
    BY <1>5 DEF IssueMessage, NoCall, NoneLeft, Calls, Colors
  <2> QED
    BY <1>5, <2>2, <2>3, <2>4, <2>5, <2>6 DEF IssueMessage
<1>6. CASE Draw
  <2>1. PICK T \in RandomUniqueEntries(Pool, left[Drawing]) :
           LET found == IF TSA = "RURTS" THEN {m \in T : m > outdated} ELSE T
               done == TSA = "URTS" \/ T = {}
           IN  /\ left' = [left EXCEPT ![Drawing] =
                              IF done THEN 0 ELSE @ - Cardinality(found)]
               /\ chosen' = chosen \cup found
    BY <1>6 DEF Draw
  <2>2. left[Drawing] \in Nat \ {0} /\ Drawing \in Pools /\ Pool \in SUBSET Message
    BY <1>6, PoolType DEF Draw
  <2>3. T \in SUBSET Message /\ Cardinality(T) <= left[Drawing]
    BY <2>2, DrawnTips
  <2>4. \A found \in SUBSET T : left[Drawing] - Cardinality(found) \in Nat
    BY <2>2, <2>3, FoundType
  <2>5. left' \in [Pools -> Nat] /\ chosen' \in SUBSET (Message \cup {Genesis})
    BY <2>1, <2>2, <2>3, <2>4
  <2> QED
    BY <1>6, <2>5 DEF Draw
<1>7. CASE CannotBurn
  BY <1>7 DEF CannotBurn, NoCall, NoneLeft, Calls, Colors
<1>8. CASE GrowOld
  BY <1>8 DEF GrowOld, selection
<1>9. CASE UNCHANGED vars
  BY <1>9 DEF vars, selection
<1> QED
  BY <1>1, <1>2, <1>3, <1>4, <1>5, <1>6, <1>7, <1>8, <1>9 DEF Next

\* The shape of the state never changes.
THEOREM TypeCorrect == Spec => []TypeOK
BY TypeCorrectInit, TypeCorrectStep, PTL DEF Spec

-----------------------------------------------------------------------------
(* The tip sets serve their colours *)

\* The tip sets that exist serve their colours, the uncoloured one even before
\* it exists, because then no uncoloured message has been added.
AllServe ==
    /\ \A m \in added : issued[m].color \in known
    /\ \A c \in known \cup {Undefined} : Serves(tipSets[c], c, added, late)

\* The same set serves a colour when other messages are added, more of them late.
LEMMA ServesMore ==
    ASSUME NEW s, NEW c, NEW A, NEW B, NEW L, NEW K,
           Serves(s, c, A, L), History(c, A) = History(c, B), L \subseteq K
    PROVE  Serves(s, c, B, K)
BY DEF Serves

\* A colour without a tip set gets one that serves it.
LEMMA TipSetServes ==
    ASSUME TypeOK, AllServe, NEW c \in Colors
    PROVE  Serves(TipSet(c), c, added, late)
<1>1. CASE c \in known
  BY <1>1 DEF AllServe, TipSet
<1>2. CASE c \notin known
  <2> DEFINE u == tipSets[Undefined]
             t == NewTipSet(u)
  <2>1. Serves(u, Undefined, added, late)
    BY DEF AllServe
  <2>2. History(c, added) = History(Undefined, added)
    BY <1>2 DEF AllServe, History
  <2>3. t \in TipSets /\ t.strongTips = u.strongTips
        /\ t.validatorStrongTips \cup t.validatorValidationTips = u.strongTips
    BY <2>1 DEF Serves, NewTipSet, TipSets
  <2>4. TipSet(c) = t
    BY <1>2 DEF TipSet
  <2> HIDE DEF u, t
  <2>5. Serves(t, c, added, late)
    BY <2>1, <2>2, <2>3 DEF Serves
  <2> QED
    BY <2>4, <2>5
<1> QED
  BY <1>1, <1>2

\* AnalyzeMessage keeps the tip sets serving their colours.
LEMMA AnalyzeServes ==
    ASSUME TypeOK, References, AllServe, NEW m \in Message, AnalyzeMessage(m)
    PROVE  AllServe'
<1> DEFINE c == issued[m].color
           into == IF TSA # "RURTS" \/ m > outdated THEN Receiving(c) ELSE {}
<1>1. /\ issued' = issued /\ known' = known \cup {c}
      /\ tipSets' = [d \in Colors |-> IF d \in into THEN AddTip(TipSet(d), m)
                                      ELSE IF d = c THEN TipSet(d) ELSE tipSets[d]]
      /\ added' = IF into = {} THEN added ELSE added \cup {m}
      /\ late' = IF into = {} THEN late ELSE LateWith(m)
  BY DEF AnalyzeMessage, LateWith
<1>2. /\ known \subseteq Colors /\ c \in Colors /\ Undefined \in Colors
      /\ added \in SUBSET Message /\ late \in SUBSET added
  <2>1. c \in Colors
    BY DEF TypeOK, Content
  <2>2. added \in SUBSET Message
    BY MaxMessageAssumption DEF TypeOK, Message
  <2> QED
    BY <2>1, <2>2 DEF TypeOK, Colors
<1>3. late \subseteq LateWith(m)
  BY DEF LateWith
<1>4. /\ into = {} \/ into = Receiving(c)
      /\ into # {} => c \in into
      /\ \A d \in into : d \in Colors /\ c \in {d, Undefined}
  BY <1>2 DEF Receiving
<1> HIDE DEF into
<1>5. \A d \in known' \cup {Undefined} : Serves(tipSets'[d], d, added', late')
  <2> SUFFICES ASSUME NEW d \in known' \cup {Undefined}
               PROVE  Serves(tipSets'[d], d, added', late')
    OBVIOUS
  <2>1. d \in Colors
    BY <1>1, <1>2
  <2>2. Serves(TipSet(d), d, added, late)
    BY <2>1, TipSetServes
  <2>3. CASE d \in into
    <3>1. Serves(AddTip(TipSet(d), m), d, added \cup {m}, LateWith(m))
      BY <1>2, <1>4, <2>2, <2>3, AddTipServes, MaxMessageAssumption
    <3> QED
      BY <1>1, <2>1, <2>3, <3>1
  <2>4. CASE d \notin into
    <3>1. Serves(tipSets'[d], d, added, late)
      <4>1. CASE d = c
        BY <1>1, <2>1, <2>2, <2>4, <4>1
      <4>2. CASE d # c
        BY <1>1, <2>1, <2>4, <4>2 DEF AllServe
      <4> QED
        BY <4>1, <4>2
    <3>2. CASE into = {}
      BY <1>1, <3>1, <3>2
    <3>3. CASE into # {}
      <4>1. c \notin {d, Undefined}
        BY <1>1, <1>4, <2>4, <3>3 DEF Receiving
      <4>2. History(d, added \cup {m}) = History(d, added)
        BY <4>1 DEF History
      <4> QED
        BY <1>1, <1>3, <3>1, <3>3, <4>2, ServesMore
    <3> QED
      BY <3>2, <3>3
  <2> QED
    BY <2>3, <2>4
<1>6. \A k \in added' : issued'[k].color \in known'
  BY <1>1 DEF AllServe
<1>7. ASSUME NEW d \in known' \cup {Undefined}
      PROVE  Serves(tipSets[d], d, added, late)'
  <2>1. Serves(tipSets'[d], d, added', late')
    BY <1>5, <1>7
  <2>2. issued' = issued
    BY <1>1
  <2>3. History(d, added)' = History(d, added')
    BY <2>2 DEF History
  <2>4. \A tips, M : CoveredBy(tips, M)' <=> CoveredBy(tips, M)
    BY <2>2 DEF CoveredBy
  <2> QED
    BY <2>1, <2>2, <2>3, <2>4 DEF Serves
<1> QED
  BY <1>6, <1>7 DEF AllServe

\* Issuing a message changes no history.
LEMMA IssueServes ==
    ASSUME TypeOK, References, AllServe, NEW new \in Content,
           messageIDCounter + 1 \in Message,
           issued' = [issued EXCEPT ![messageIDCounter + 1] = new],
           UNCHANGED <<added, late, known, tipSets>>
    PROVE  AllServe'
<1>1. \A m \in added : issued'[m] = issued[m]
  BY DEF TypeOK
<1>2. \A m \in Message : issued[m].strong \subseteq issued'[m].strong
  BY DEF References, TypeOK
<1>3. \A c : History(c, added)' = History(c, added)
  BY <1>1 DEF History
<1>4. \A tips, M : CoveredBy(tips, M) => CoveredBy(tips, M)'
  BY <1>2 DEF CoveredBy
<1>5. ASSUME NEW c \in known \cup {Undefined}
      PROVE  Serves(tipSets[c], c, added, late)'
  <2>1. Serves(tipSets[c], c, added, late)
    BY <1>5 DEF AllServe
  <2>2. \A m, k \in History(c, added) : m \notin issued'[k].strong <=> m \notin issued[k].strong
    BY <1>1 DEF History
  <2> QED
    BY <1>3, <1>4, <2>1, <2>2 DEF Serves
<1> QED
  BY <1>1, <1>5 DEF AllServe
-----------------------------------------------------------------------------
(* The inductive invariant *)

\* A pool that TipSelect has still to draw from has tips.
PoolLeft ==
    LET s == tipSets[selecting.opinion]
    IN  \/ left["VB"] > 0 /\ s.validatorValidationTips # {}
        \/ /\ left["NVB"] > 0
           /\ IF selecting.validation THEN s.validatorStrongTips # {} ELSE s.strongTips # {}

\* What TipSelect has found is booked and of one colour, and it will find
\* something.
Selecting ==
    selecting.active =>
        /\ selecting.opinion \in known
        /\ \A p \in chosen \ {Genesis} :
              p \in booked /\ issued[p].color \in {selecting.opinion, Undefined}
        /\ chosen = {} => PoolLeft

IInv ==
    /\ TypeOK
    /\ References
    /\ AllServe
    /\ Selecting
    /\ UncoloredIsBooked
    /\ HasParents

LEMMA InitIInv == Init => IInv
<1> SUFFICES ASSUME Init
             PROVE  IInv
  OBVIOUS
<1>1. TypeOK
  BY TypeCorrectInit
<1>2. AllServe
  <2>1. \A A : A = {} => History(Undefined, A) = {}
    BY DEF History
  <2>2. Serves(EmptyTipSet, Undefined, {}, {})
    BY <2>1 DEF Serves, EmptyTipSet, TipSets, CoveredBy
  <2> QED
    BY <2>2 DEF Init, AllServe, Colors
<1>3. References
  BY <1>1 DEF Init, References, TypeOK, Blank
<1>4. Selecting /\ UncoloredIsBooked /\ HasParents
  BY DEF Init, Selecting, NoCall, UncoloredIsBooked, HasParents
<1> QED
  BY <1>1, <1>2, <1>3, <1>4 DEF IInv

\* What the issuing actions share.
LEMMA IssueReferences ==
    ASSUME TypeOK, References, TypeOK', NEW new \in Content,
           messageIDCounter + 1 \in Message,
           messageIDCounter' = messageIDCounter + 1,
           issued' = [issued EXCEPT ![messageIDCounter + 1] = new],
           new.strong \subseteq (1 .. messageIDCounter) \cup {Genesis}
    PROVE  References'
<1>1. messageIDCounter \in Nat /\ Message \subseteq Nat
  BY MaxMessageAssumption DEF TypeOK, Message
<1>2. issued' \in [Message -> Content]
  BY DEF TypeOK
<1>3. \A m \in Message : issued'[m] = IF m = messageIDCounter + 1 THEN new ELSE issued[m]
  BY DEF TypeOK
<1>4. \A p \in new.strong : p < messageIDCounter + 1
  BY <1>1 DEF Genesis
<1>5. ASSUME NEW m \in Message
      PROVE  /\ \A p \in issued'[m].strong : p < m
             /\ m > messageIDCounter' => issued'[m].strong = {}
  BY <1>1, <1>3, <1>4, <1>5 DEF References
<1> QED
  BY <1>2, <1>5 DEF References

\* A draw finds tips of the colour, and something if there is something.
LEMMA DrawSelecting ==
    ASSUME TypeOK, AllServe, Selecting, Draw
    PROVE  Selecting'
<1> SUFFICES ASSUME selecting.active
             PROVE  Selecting'
  BY DEF Draw, Selecting
<1> DEFINE s == tipSets[selecting.opinion]
           c == selecting.opinion
<1>1. PICK T \in RandomUniqueEntries(Pool, left[Drawing]) :
         LET found == IF TSA = "RURTS" THEN {m \in T : m > outdated} ELSE T
             done == TSA = "URTS" \/ T = {}
         IN  /\ left' = [left EXCEPT ![Drawing] =
                            IF done THEN 0 ELSE @ - Cardinality(found)]
             /\ chosen' = chosen \cup found
  BY DEF Draw
<1> DEFINE found == IF TSA = "RURTS" THEN {m \in T : m > outdated} ELSE T
<1>2. left[Drawing] \in Nat \ {0} /\ Drawing \in Pools /\ Pool \in SUBSET Message
  BY PoolType DEF Draw, TypeOK
<1>3. T \subseteq Pool /\ (T = {} => Pool = {})
  BY <1>2, DrawnTips
<1>4. \A p \in Pool : p \in booked /\ issued[p].color \in {c, Undefined}
  <2>1. Pool \subseteq s.strongTips \cup s.validatorStrongTips \cup s.validatorValidationTips
    BY DEF Pool
  <2>2. Pool \subseteq History(c, added)
    BY <2>1 DEF AllServe, Serves, Selecting
  <2> QED
    BY <2>2 DEF History, TypeOK
<1>5. \A p \in chosen' \ {Genesis} : p \in booked /\ issued[p].color \in {c, Undefined}
  BY <1>1, <1>3, <1>4 DEF Selecting
<1>6. ASSUME chosen' = {}
      PROVE  PoolLeft'
  <2>1. chosen = {} /\ found = {} /\ PoolLeft
    BY <1>1, <1>6 DEF Selecting
  <2>2. CASE T = {}
    <3>1. Pool = {} /\ left' = [left EXCEPT ![Drawing] = 0]
      BY <1>1, <1>3, <2>2
    <3>2. Drawing = "VB"
      BY <1>2, <2>1, <3>1 DEF Drawing, Pool, PoolLeft, Pools
    <3>3. left'["NVB"] = left["NVB"] /\ left["NVB"] > 0 /\ s.validatorValidationTips = {}
      BY <2>1, <3>1, <3>2 DEF Pool, PoolLeft, TypeOK, Pools
    <3> QED
      BY <2>1, <3>3 DEF Draw, PoolLeft
  <2>3. CASE T # {}
    <3>1. TSA # "URTS" /\ Cardinality(found) = 0
      BY <2>1, <2>3, SelectorAssumption, FS_EmptySet
    <3>2. left' = [left EXCEPT ![Drawing] = @ - Cardinality(found)]
      BY <1>1, <2>3, <3>1
    <3>3. left' = left
      BY <1>2, <3>1, <3>2 DEF TypeOK
    <3> QED
      BY <2>1, <3>3 DEF Draw, PoolLeft
  <2> QED
    BY <2>2, <2>3
<1> QED
  BY <1>5, <1>6 DEF Draw, Selecting

\* The message that is issued has parents, and is booked if it has no payload.
LEMMA IssueInv ==
    ASSUME IInv, TypeOK', NEW payload \in Colors, IssueMessage(payload)
    PROVE  IInv'
<1> DEFINE m == messageIDCounter + 1
           new == NewMessage(chosen, selecting.validation, payload, TRUE)
           c == selecting.opinion
<1> USE DEF IInv
<1>1. new \in Content
  BY NewMessageType DEF TypeOK, Calls
<1>2. /\ new.strong = chosen
      /\ new.payload = payload
      /\ new.valid = (\A d, e \in ColorsMeeting(chosen, payload) : d = e)
  BY DEF NewMessage
<1>3. /\ m \in Message /\ messageIDCounter' = m
      /\ issued' = [issued EXCEPT ![m] = new]
      /\ booked' = IF new.valid /\ new.strong \subseteq booked \cup {Genesis}
                   THEN booked \cup {m} ELSE booked
      /\ ~selecting'.active
  BY DEF IssueMessage, NoCall
<1> HIDE DEF new
<1>4. chosen \ {Genesis} \subseteq booked /\ chosen # {}
  BY DEF IssueMessage, Selected, Idle, Selecting, PoolLeft
<1>5. References'
  BY <1>1, <1>2, <1>3, <1>4, IssueReferences DEF TypeOK
<1>6. AllServe'
  BY <1>1, <1>3, IssueServes DEF IssueMessage
<1>7. Selecting'
  BY <1>3 DEF Selecting
<1>8. payload = Undefined => m \in booked'
  <2> SUFFICES ASSUME payload = Undefined
               PROVE  m \in booked'
    OBVIOUS
  <2>1. \A p \in chosen \ {Genesis} : issued[p].color \in {c, Undefined}
    BY DEF IssueMessage, Selected, Idle, Selecting
  <2>2. ColorsMeeting(chosen, payload) \subseteq {c}
    BY <2>1 DEF ColorsMeeting
  <2>3. new.valid
    BY <1>2, <2>2
  <2> QED
    BY <1>2, <1>3, <1>4, <2>3
<1>9. \A k \in 1 .. m : k # m => k \in 1 .. messageIDCounter /\ issued'[k] = issued[k]
  BY <1>3 DEF TypeOK, Message
<1>10. issued'[m] = new
  BY <1>3 DEF TypeOK
<1>11. UncoloredIsBooked'
  BY <1>2, <1>3, <1>8, <1>9, <1>10 DEF UncoloredIsBooked
<1>12. HasParents'
  BY <1>2, <1>3, <1>4, <1>9, <1>10 DEF HasParents
<1> QED
  BY <1>5, <1>6, <1>7, <1>11, <1>12

\* What other nodes issue has parents, too.
LEMMA IssueElsewhereInv ==
    ASSUME IInv, TypeOK', NEW strong \in SUBSET (Message \cup {Genesis}),
           NEW payload \in Colors, NEW validation \in BOOLEAN,
           IssueElsewhere(strong, validation, payload)
    PROVE  IInv'
<1> DEFINE m == messageIDCounter + 1
           new == NewMessage(strong, validation, payload, FALSE)
<1> USE DEF IInv
<1>1. new \in Content
  BY NewMessageType DEF TypeOK
<1>2. new.strong = strong /\ new.own = FALSE
  BY DEF NewMessage
<1>3. /\ m \in Message /\ messageIDCounter' = m
      /\ issued' = [issued EXCEPT ![m] = new]
      /\ strong # {} /\ strong \subseteq (1 .. messageIDCounter) \cup {Genesis}
      /\ ~selecting'.active /\ booked' = booked
  BY DEF IssueElsewhere, Idle, selection
<1> HIDE DEF new
<1>5. References'
  BY <1>1, <1>2, <1>3, IssueReferences
<1>6. AllServe'
  BY <1>1, <1>3, IssueServes DEF IssueElsewhere
<1>7. Selecting'
  BY <1>3 DEF Selecting
<1>9. \A k \in 1 .. m : k # m => k \in 1 .. messageIDCounter /\ issued'[k] = issued[k]
  BY <1>3 DEF TypeOK, Message
<1>10. issued'[m] = new
  BY <1>3 DEF TypeOK
<1>11. UncoloredIsBooked'
  BY <1>2, <1>3, <1>9, <1>10 DEF UncoloredIsBooked
<1>12. HasParents'
  BY <1>2, <1>3, <1>9, <1>10 DEF HasParents
<1> QED
  BY <1>5, <1>6, <1>7, <1>11, <1>12

LEMMA NextIInv == IInv /\ [Next]_vars => IInv'
<1> SUFFICES ASSUME IInv, [Next]_vars
             PROVE  IInv'
  OBVIOUS
<1>0. TypeOK'
  BY TypeCorrectStep DEF IInv
<1> USE DEF IInv
<1>1. ASSUME NEW strong \in SUBSET (Message \cup {Genesis}), NEW payload \in Colors,
             NEW validation \in BOOLEAN, IssueElsewhere(strong, validation, payload)
      PROVE  IInv'
  BY <1>0, <1>1, IssueElsewhereInv
<1>2. ASSUME NEW m \in Message, Book(m)
      PROVE  IInv'
  <2>1. References' /\ HasParents'
    BY <1>2 DEF Book, References, HasParents
  <2>2. AllServe'
    BY <1>2 DEF Book, AllServe, Serves, History, CoveredBy
  <2>3. Selecting'
    BY <1>2 DEF Book, Idle, selection, Selecting
  <2>4. UncoloredIsBooked'
    BY <1>2 DEF Book, UncoloredIsBooked
  <2> QED
    BY <1>0, <2>1, <2>2, <2>3, <2>4
<1>3. ASSUME NEW m \in Message, AnalyzeMessage(m)
      PROVE  IInv'
  <2>1. References' /\ HasParents' /\ UncoloredIsBooked'
    BY <1>3 DEF AnalyzeMessage, References, HasParents, UncoloredIsBooked
  <2>2. AllServe'
    BY <1>3, AnalyzeServes
  <2>3. Selecting'
    BY <1>3 DEF AnalyzeMessage, Idle, selection, Selecting
  <2> QED
    BY <1>0, <2>1, <2>2, <2>3
<1>4. ASSUME NEW validation \in BOOLEAN, NEW opinion \in Colors, Tips(validation, opinion)
      PROVE  IInv'
  <2> DEFINE s == TipSet(opinion)
  <2>1. References' /\ HasParents' /\ UncoloredIsBooked'
    BY <1>4 DEF Tips, References, HasParents, UncoloredIsBooked
  <2>2. /\ issued' = issued /\ added' = added /\ late' = late
        /\ known' = known \cup {opinion}
        /\ tipSets' = [tipSets EXCEPT ![opinion] = s]
        /\ selecting' = [active |-> TRUE, validation |-> validation, opinion |-> opinion]
    BY <1>4 DEF Tips
  <2>3. Serves(s, opinion, added, late)
    BY TipSetServes
  <2>4. tipSets'[opinion] = s
    BY <2>2 DEF TypeOK
  <2>5. AllServe'
    <3>1. ASSUME NEW c \in known' \cup {Undefined}
          PROVE  Serves(tipSets'[c], c, added, late)
      <4>1. c \in Colors
        BY <2>2 DEF TypeOK, Colors
      <4> HIDE DEF s
      <4> QED
        BY <2>2, <2>3, <2>4, <4>1 DEF AllServe, TypeOK
    <3>2. ASSUME NEW c \in known' \cup {Undefined}
          PROVE  Serves(tipSets[c], c, added, late)'
      <4>1. Serves(tipSets'[c], c, added, late)
        BY <3>1, <3>2
      <4> QED
        BY <2>2, <4>1 DEF Serves, History, CoveredBy
    <3> QED
      BY <2>2, <3>2 DEF AllServe
  <2>6. Selecting'
    <3>1. chosen' \subseteq {Genesis}
      BY <1>4 DEF Tips
    <3>2. ASSUME chosen' = {}
          PROVE  PoolLeft'
      <4>1. /\ left' = Wanted(validation)
            /\ IF validation
               THEN s.validatorValidationTips # {} \/ s.validatorStrongTips # {}
               ELSE s.strongTips # {}
        BY <1>4, <3>2 DEF Tips
      <4>2. /\ left'["NVB"] > 0
            /\ validation => left'["VB"] > 0
        BY <4>1, ParentCountAssumption DEF Wanted, Pools
      <4> HIDE DEF s
      <4> QED
        BY <2>2, <2>4, <4>1, <4>2 DEF PoolLeft
    <3> QED
      BY <2>2, <3>1, <3>2 DEF Selecting
  <2> QED
    BY <1>0, <2>1, <2>5, <2>6
<1>5. ASSUME NEW payload \in Colors, IssueMessage(payload)
      PROVE  IInv'
  BY <1>0, <1>5, IssueInv
<1>6. CASE Draw
  <2>1. References' /\ HasParents' /\ UncoloredIsBooked'
    BY <1>6 DEF Draw, References, HasParents, UncoloredIsBooked
  <2>2. AllServe'
    BY <1>6 DEF Draw, AllServe, Serves, History, CoveredBy
  <2>3. Selecting'
    BY <1>6, DrawSelecting
  <2> QED
    BY <1>0, <2>1, <2>2, <2>3
<1>7. CASE CannotBurn
  <2>1. References' /\ HasParents' /\ UncoloredIsBooked'
    BY <1>7 DEF CannotBurn, References, HasParents, UncoloredIsBooked
  <2>2. AllServe'
    BY <1>7 DEF CannotBurn, AllServe, Serves, History, CoveredBy
  <2>3. Selecting'
    BY <1>7 DEF CannotBurn, NoCall, Selecting
  <2> QED
    BY <1>0, <2>1, <2>2, <2>3
<1>8. CASE GrowOld \/ UNCHANGED vars
  <2>1. UNCHANGED <<messageIDCounter, issued, booked, known, tipSets, selection, added, late>>
    BY <1>8 DEF GrowOld, vars
  <2>2. References' /\ HasParents' /\ UncoloredIsBooked'
    BY <2>1 DEF References, HasParents, UncoloredIsBooked
  <2>3. AllServe'
    BY <2>1 DEF AllServe, Serves, History, CoveredBy
  <2>4. Selecting'
    BY <2>1 DEF Selecting, PoolLeft, selection
  <2> QED
    BY <1>0, <2>2, <2>3, <2>4
<1> QED
  BY <1>1, <1>2, <1>3, <1>4, <1>5, <1>6, <1>7, <1>8 DEF Next

THEOREM Invariance == Spec => []IInv
BY InitIInv, NextIInv, PTL DEF Spec

-----------------------------------------------------------------------------
(* What it says of the code *)

\* A message the node issues without a payload is valid and booked at once,
\* whatever it prefers and however old the tips are.
THEOREM UncoloredAlwaysBooked == Spec => []UncoloredIsBooked
<1>1. IInv => UncoloredIsBooked
  BY DEF IInv
<1> QED
  BY <1>1, Invariance, PTL

\* The tips CreateMessage returns are never none.
THEOREM AlwaysParents == Spec => []HasParents
<1>1. IInv => HasParents
  BY DEF IInv
<1> QED
  BY <1>1, Invariance, PTL

\* AddStrongTip and its siblings leave no message behind.
THEOREM TipsAlwaysCover == Spec => []TipsCoverTangle
<1>1. IInv => TipsCoverTangle
  <2> SUFFICES ASSUME IInv, NEW c \in known
               PROVE  /\ CoveredBy(tipSets[c].strongTips, Seen(c))
                      /\ CoveredBy(tipSets[c].validatorStrongTips
                                      \cup tipSets[c].validatorValidationTips, Seen(c))
    BY DEF TipsCoverTangle
  <2>1. Seen(c) = History(c, added)
    BY DEF Seen, History
  <2> QED
    BY <2>1 DEF IInv, AllServe, Serves
<1> QED
  BY <1>1, Invariance, PTL

\* The strong tips are the messages without an approver, late ones excepted.
THEOREM TipsAlwaysChildless == Spec => []TipsAreChildless
<1>1. IInv => TipsAreChildless
  <2> SUFFICES ASSUME IInv, NEW c \in known, NEW m \in Seen(c) \ late
               PROVE  m \in tipSets[c].strongTips
                         <=> \A k \in Seen(c) : m \notin issued[k].strong
    BY DEF TipsAreChildless
  <2>1. Seen(c) = History(c, added)
    BY DEF Seen, History
  <2> QED
    BY <2>1 DEF IInv, AllServe, Serves
<1> QED
  BY <1>1, Invariance, PTL
=============================================================================
