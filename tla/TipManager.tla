----------------------------- MODULE TipManager -----------------------------
(***************************************************************************)
(* Which messages the nodes attach new messages to: TipManager with its    *)
(* tip sets per colour, the tip selections URTS and RURTS, and             *)
(* MessageFactory.CreateMessage.                                           *)
(*                                                                         *)
(* The DAG grows in this module.  The node selects tips of the colour it   *)
(* prefers and issues a message on top of them; the others issue messages  *)
(* on top of anything valid.  The node books what reaches it after its     *)
(* parents, and AnalyzeMessage makes it a tip at each MessageScheduled.    *)
(* The order of scheduling is open: a message may be dropped, or scheduled *)
(* after its children when it was confirmed first, and twice or more when  *)
(* it skips the scheduler.  The opinion of the node may be anything, which *)
(* covers adversaries.                                                     *)
(*                                                                         *)
(* Left out: the weak tips, which are always empty because every call that *)
(* would add one is commented out, and the counters of processed messages, *)
(* which only feed the metrics.                                            *)
(***************************************************************************)
EXTENDS Integers, FiniteSets

CONSTANTS
    Color,
    Undefined,       \* UndefinedColor, the zero value of Color
    MaxMessage,      \* bound on the messages issued
    TSA,             \* "URTS" or "RURTS"
    ParentsCount,    \* parents of a regular message
    ParentCountVB,   \* parents of a validation message that are validation
    ParentCountNVB   \* messages, and that are not

\* The zero value of MessageID: the root of the DAG, never an issued message.
Genesis == 0

Message == 1 .. MaxMessage
Colors == Color \cup {Undefined}

ASSUME UndefinedAssumption == Undefined \notin Color
ASSUME MaxMessageAssumption == MaxMessage \in Nat
ASSUME SelectorAssumption == TSA \in {"URTS", "RURTS"}
ASSUME ParentCountAssumption ==
    /\ ParentsCount \in Nat \ {0}
    /\ ParentCountVB \in Nat \ {0}
    /\ ParentCountNVB \in Nat \ {0}

\* `color` is the colour the Booker derives, the same on every node, `valid`
\* whether the colours that meet agree, `own` whether the node issued it.
Content == [strong : SUBSET (Message \cup {Genesis}), validation : BOOLEAN,
            payload : Colors, color : Colors, valid : BOOLEAN, own : BOOLEAN]

TipSets == [strongTips : SUBSET Message,
            validatorStrongTips : SUBSET Message,
            validatorValidationTips : SUBSET Message]

EmptyTipSet == [strongTips |-> {}, validatorStrongTips |-> {},
                validatorValidationTips |-> {}]

VARIABLES
    messageIDCounter,  \* the messages 1 .. messageIDCounter have been issued
    issued,            \* their contents
    outdated,          \* the messages 1 .. outdated are older than DeltaURTS
    booked,            \* the messages the node has booked
    scheduled,         \* the messages MessageScheduled has named
    known,             \* the keys of the map tipSets
    tipSets,           \* its values
    selecting,         \* the call of CreateMessage the node is in
    left,              \* the tips TipSelect has still to find in each pool
    chosen,            \* the tips it has found
    added,             \* history: the messages AnalyzeMessage took as tips
    late               \* history: those it took after a child or once more

selection == <<selecting, left, chosen>>
vars == <<messageIDCounter, issued, outdated, booked, scheduled, known, tipSets,
          selection, added, late>>

\* Validation messages choose among the validation messages first, and then
\* among the others.  Regular messages have one pool, the second.
Pools == {"VB", "NVB"}

Calls == [active : BOOLEAN, validation : BOOLEAN, opinion : Colors]

\* The node is not in CreateMessage.
NoCall == [active |-> FALSE, validation |-> FALSE, opinion |-> Undefined]
NoneLeft == [pool \in Pools |-> 0]

Idle == ~selecting.active

-----------------------------------------------------------------------------
(* Tip sets *)

\* (Variants named ..._X are wrong on purpose; the runs must tell them apart.)
NewTipSetEmpty_X(inherit) == EmptyTipSet

\* NewTipSet copies the strong tips of the uncoloured set, sorted anew.
NewTipSet(inherit) ==
    [strongTips |-> inherit.strongTips,
     validatorStrongTips |-> {m \in inherit.strongTips : ~issued[m].validation},
     validatorValidationTips |-> {m \in inherit.strongTips : issued[m].validation}]

\* TipSet makes the set of a colour when it is first asked for.
TipSet(c) ==
    IF c \in known THEN tipSets[c] ELSE NewTipSet(tipSets[Undefined])

AddTipValidationOnTop_X(s, m) ==
    LET Added(tips) == (tips \cup {m}) \ issued[m].strong
        validation == issued[m].validation
    IN  [strongTips |-> IF validation THEN s.strongTips \cup {m} ELSE Added(s.strongTips),
         validatorStrongTips |->
             IF validation THEN s.validatorStrongTips ELSE Added(s.validatorStrongTips),
         validatorValidationTips |->
             IF validation THEN Added(s.validatorValidationTips) ELSE s.validatorValidationTips]

\* AddStrongTip with AddValidatorStrongTip or AddValidatorValidationTip.
AddTip(s, m) ==
    LET Added(tips) == (tips \cup {m}) \ issued[m].strong
        validation == issued[m].validation
    IN  [strongTips |-> Added(s.strongTips),
         validatorStrongTips |->
             IF validation THEN s.validatorStrongTips ELSE Added(s.validatorStrongTips),
         validatorValidationTips |->
             IF validation THEN Added(s.validatorValidationTips) ELSE s.validatorValidationTips]

ReceivingAll_X(c) == known \cup {c}

\* The keys TipSets returns: an uncoloured message goes into every set.
Receiving(c) == IF c = Undefined THEN known \cup {Undefined} ELSE {c}

-----------------------------------------------------------------------------
(* Messages on their way *)

\* A message that has not been issued yet.
Blank == [strong |-> {}, validation |-> FALSE, payload |-> Undefined,
          color |-> Undefined, valid |-> FALSE, own |-> FALSE]

Init ==
    /\ messageIDCounter = 0
    /\ issued = [m \in Message |-> Blank]
    /\ outdated = 0
    /\ booked = {}
    /\ scheduled = {}
    /\ known = {}
    /\ tipSets = [c \in Colors |-> EmptyTipSet]
    /\ selecting = NoCall /\ left = NoneLeft /\ chosen = {}
    /\ added = {}
    /\ late = {}

\* The colours that meet in a message with these parents and this payload, and
\* the message: inheritColor takes the only one there is.
ColorsMeeting(strong, payload) ==
    ({payload} \cup {issued[p].color : p \in strong \ {Genesis}}) \ {Undefined}

NewMessage(strong, validation, payload, own) ==
    LET met == ColorsMeeting(strong, payload)
        agree == \A c, d \in met : c = d
    IN  [strong |-> strong, validation |-> validation, payload |-> payload,
         color |-> IF agree /\ met # {} THEN CHOOSE c \in met : TRUE ELSE Undefined,
         valid |-> agree, own |-> own]

\* Another node issues a message on top of any valid ones.  (An invalid message
\* never leaves its issuer, which does not book it.  That others issue in the
\* middle of CreateMessage would only number the messages otherwise.)
IssueElsewhere(strong, validation, payload) ==
    LET m == messageIDCounter + 1
    IN  /\ Idle
        /\ m \in Message
        /\ validation => payload = Undefined
        /\ \/ strong = {Genesis}
           \/ strong # {} /\ strong \subseteq {p \in 1 .. messageIDCounter : issued[p].valid}
        /\ NewMessage(strong, validation, payload, FALSE).valid
        /\ messageIDCounter' = m
        /\ issued' = [issued EXCEPT ![m] = NewMessage(strong, validation, payload, FALSE)]
        /\ UNCHANGED <<outdated, booked, scheduled, known, tipSets, selection, added, late>>

\* A message of another node reaches this one.
Book(m) ==
    /\ Idle
    /\ m \in 1 .. messageIDCounter /\ m \notin booked
    /\ issued[m].valid /\ ~issued[m].own
    /\ issued[m].strong \subseteq booked \cup {Genesis}
    /\ booked' = booked \cup {m}
    /\ UNCHANGED <<messageIDCounter, issued, outdated, scheduled, known, tipSets,
                   selection, added, late>>

\* A validation message is scheduled at once and from the queue, and so is an
\* own message of a node that burns nothing; the others are scheduled once.
Repeats(m) == issued[m].validation \/ issued[m].own

\* AnalyzeMessage, the handler of MessageScheduled.
AnalyzeMessage(m) ==
    LET c == issued[m].color
        into == IF TSA # "RURTS" \/ m > outdated THEN Receiving(c) ELSE {}
        again == m \in added \/ \E k \in added : m \in issued[k].strong
    IN  /\ Idle
        /\ m \in booked
        /\ m \notin scheduled \/ Repeats(m)
        /\ scheduled' = scheduled \cup {m}
        /\ known' = known \cup {c}
        /\ tipSets' = [d \in Colors |-> IF d \in into THEN AddTip(TipSet(d), m)
                                        ELSE IF d = c THEN TipSet(d) ELSE tipSets[d]]
        /\ added' = IF into = {} THEN added ELSE added \cup {m}
        /\ late' = IF into # {} /\ again THEN late \cup {m} ELSE late
        /\ UNCHANGED <<messageIDCounter, issued, outdated, booked, selection>>

-----------------------------------------------------------------------------
(* CreateMessage *)

\* The maxAmount of each TipSelect.
Wanted(validation) ==
    [pool \in Pools |-> IF validation
                        THEN IF pool = "VB" THEN ParentCountVB ELSE ParentCountNVB
                        ELSE IF pool = "VB" THEN 0 ELSE ParentsCount]

\* Tips(validation), up to the loops of TipSelect.
Tips(validation, opinion) ==
    LET s == TipSet(opinion)
        empty == IF validation
                 THEN s.validatorValidationTips = {} /\ s.validatorStrongTips = {}
                 ELSE s.strongTips = {}
    IN  /\ Idle
        /\ messageIDCounter < MaxMessage
        /\ known' = known \cup {opinion}
        /\ tipSets' = [tipSets EXCEPT ![opinion] = s]
        /\ selecting' = [active |-> TRUE, validation |-> validation, opinion |-> opinion]
        /\ left' = IF empty THEN NoneLeft ELSE Wanted(validation)
        /\ chosen' = IF empty THEN {Genesis} ELSE {}
        /\ UNCHANGED <<messageIDCounter, issued, outdated, booked, scheduled, added, late>>

\* The pool TipSelect is drawing from.
Drawing == IF left["VB"] > 0 THEN "VB" ELSE "NVB"
Pool ==
    LET s == tipSets[selecting.opinion]
    IN  IF Drawing = "VB" THEN s.validatorValidationTips
        ELSE IF selecting.validation THEN s.validatorStrongTips
        ELSE s.strongTips

\* hive.go's RandomMap: a choice of that many entries, or all of them.
RandomUniqueEntries(tips, count) ==
    {T \in SUBSET tips : Cardinality(T) = count \/ (Cardinality(T) < count /\ T = tips)}

DrawDeletes_X ==
    /\ left[Drawing] > 0
    /\ \E T \in RandomUniqueEntries(Pool, left[Drawing]) :
          LET old == {m \in T : m <= outdated}
              s == tipSets[selecting.opinion]
          IN  /\ left' = [left EXCEPT ![Drawing] =
                              IF T = {} THEN 0 ELSE @ - Cardinality(T \ old)]
              /\ chosen' = chosen \cup (T \ old)
              /\ tipSets' = [tipSets EXCEPT ![selecting.opinion] =
                     [strongTips |-> s.strongTips \ old,
                      validatorStrongTips |-> s.validatorStrongTips \ old,
                      validatorValidationTips |-> s.validatorValidationTips \ old]]
    /\ UNCHANGED <<messageIDCounter, issued, outdated, booked, scheduled, known,
                   selecting, added, late>>

\* One round of the loop of RURTS, or all of URTS.  What RURTS finds too old it
\* leaves in the pool: tips.Delete(tip) names the message, not its key.  So a
\* round may change nothing, and when all tips are too old none ever will.
Draw ==
    /\ left[Drawing] > 0
    /\ \E T \in RandomUniqueEntries(Pool, left[Drawing]) :
          LET found == IF TSA = "RURTS" THEN {m \in T : m > outdated} ELSE T
              done == TSA = "URTS" \/ T = {}
          IN  /\ left' = [left EXCEPT ![Drawing] =
                              IF done THEN 0 ELSE @ - Cardinality(found)]
              /\ chosen' = chosen \cup found
    /\ UNCHANGED <<messageIDCounter, issued, outdated, booked, scheduled, known,
                   tipSets, selecting, added, late>>

Selected == ~Idle /\ left["VB"] = 0 /\ left["NVB"] = 0

\* The message is issued and processed: it is stored, as it burns the RMC of its
\* slot, and booked if its colours agree and its parents are booked.  A
\* validation message has no payload.
IssueMessage(payload) ==
    LET m == messageIDCounter + 1
        new == NewMessage(chosen, selecting.validation, payload, TRUE)
    IN  /\ Selected
        /\ selecting.validation => payload = Undefined
        /\ m \in Message
        /\ messageIDCounter' = m
        /\ issued' = [issued EXCEPT ![m] = new]
        /\ booked' = IF new.valid /\ new.strong \subseteq booked \cup {Genesis}
                     THEN booked \cup {m} ELSE booked
        /\ selecting' = NoCall /\ left' = NoneLeft /\ chosen' = {}
        /\ UNCHANGED <<outdated, scheduled, known, tipSets, added, late>>

\* BurnValue finds that the node cannot pay: the tips are forgotten.
CannotBurn ==
    /\ Selected
    /\ selecting' = NoCall /\ left' = NoneLeft /\ chosen' = {}
    /\ UNCHANGED <<messageIDCounter, issued, outdated, booked, scheduled, known,
                   tipSets, added, late>>

\* Time passes.
GrowOld ==
    /\ TSA = "RURTS"
    /\ outdated < messageIDCounter
    /\ outdated' = outdated + 1
    /\ UNCHANGED <<messageIDCounter, issued, booked, scheduled, known, tipSets,
                   selection, added, late>>

Next ==
    \/ \E strong \in SUBSET (Message \cup {Genesis}) : \E payload \in Colors :
          \E validation \in BOOLEAN : IssueElsewhere(strong, validation, payload)
    \/ \E m \in Message : Book(m) \/ AnalyzeMessage(m)
    \/ \E validation \in BOOLEAN : \E opinion \in Colors : Tips(validation, opinion)
    \/ \E payload \in Colors : IssueMessage(payload)
    \/ Draw \/ CannotBurn
    \/ GrowOld

Spec == Init /\ [][Next]_vars

-----------------------------------------------------------------------------
(* Properties *)

\* The shape of the state.
TypeOK ==
    /\ messageIDCounter \in 0 .. MaxMessage
    /\ issued \in [Message -> Content]
    /\ outdated \in 0 .. messageIDCounter
    /\ booked \in SUBSET (1 .. messageIDCounter)
    /\ scheduled \in SUBSET booked
    /\ known \in SUBSET Colors
    /\ tipSets \in [Colors -> TipSets]
    /\ selecting \in Calls
    /\ left \in [Pools -> Nat]
    /\ chosen \in SUBSET (Message \cup {Genesis})
    /\ added \in SUBSET scheduled
    /\ late \in SUBSET added

\* A message the node issues without a payload is valid and booked at once:
\* tips of one set never combine two colours, and all of them are booked.
UncoloredIsBooked ==
    \A m \in 1 .. messageIDCounter :
        issued[m].own /\ issued[m].payload = Undefined => m \in booked

\* Every message has a parent.
HasParents == \A m \in 1 .. messageIDCounter : issued[m].strong # {}

\* The tips that belong to the history of colour c.
Seen(c) == {m \in added : issued[m].color \in {c, Undefined}}

\* Whatever contains these tips and, with a message, its parents, contains M.
CoveredBy(tips, M) ==
    \A S \in SUBSET Message :
        tips \subseteq S /\ (\A m \in S : issued[m].strong \subseteq S \cup {Genesis})
            => M \subseteq S

\* No message is left behind: whatever colour the node prefers, each message it
\* took as a tip is in the past cone of the current tips, both of those that
\* regular messages choose from and of those that validation messages do.
TipsCoverTangle ==
    \A c \in known :
        /\ CoveredBy(tipSets[c].strongTips, Seen(c))
        /\ CoveredBy(tipSets[c].validatorStrongTips \cup tipSets[c].validatorValidationTips,
                     Seen(c))

\* The strong tips are the messages no other one of the same history approves,
\* but for those scheduled after a child or for a second time.
TipsAreChildless ==
    \A c \in known : \A m \in Seen(c) \ late :
        m \in tipSets[c].strongTips <=> \A k \in Seen(c) : m \notin issued[k].strong

=============================================================================
