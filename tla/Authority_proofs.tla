--------------------------- MODULE Authority_proofs ---------------------------
(***************************************************************************)
(* Theorems about Authority, for every set of paths, contents, requests    *)
(* and handlers: its invariants, and that commits are atomic.              *)
(***************************************************************************)
EXTENDS Authority, TLAPS

\* What a handler carries between its read and its write belongs to the version that its
\* request names, as long as that version is the current one.
HandlersCurrent ==
  \A h \in Handlers :
     /\ handler[h].step \in {"check", "write"} => handler[h].req.base <= definition.version
     /\ handler[h].step = "check" /\ handler[h].req.base = definition.version =>
           handler[h].files = definition.files
     /\ handler[h].step = "write" /\ handler[h].req.base = definition.version =>
           /\ History!Applicable(definition.files, handler[h].req.changes)
           /\ handler[h].files = History!Applied(definition.files, handler[h].req.changes)
     /\ handler[h].step = "write" => History!Valid(handler[h].files)

\* Clients are told what receipts say.
AnswersTrue == answers \subseteq receipts

IInv ==
  /\ TypeOK
  /\ NoPathConflict
  /\ OneRequestPerVersion
  /\ HandlersCurrent
  /\ AnswersTrue
-----------------------------------------------------------------------------
\* What a busy handler carries.
LEMMA Carries ==
  ASSUME TypeOK, NEW h \in Handlers
  PROVE  /\ handler[h] = Idle \/ handler[h].step \in {"read", "lookup", "check", "write"}
         /\ handler[h].step \in {"read", "lookup", "check", "write"} =>
               /\ handler[h].req \in Requests
               /\ handler[h].req.base \in Nat /\ handler[h].req.changes \in History!Changes
         /\ handler[h].step \in {"check", "write"} => handler[h].files \in History!Definitions
<1>1. handler[h] \in HandlerStates
  BY DEF TypeOK
<1>2. /\ handler[h] = Idle \/ handler[h].step \in {"read", "lookup", "check", "write"}
      /\ handler[h].step \in {"read", "lookup", "check", "write"} => handler[h].req \in Requests
      /\ handler[h].step \in {"check", "write"} => handler[h].files \in History!Definitions
  BY <1>1 DEF HandlerStates, Idle
<1> QED
  BY <1>2, AuthorityAssumption

\* Changes that are applied to a definition make a definition.
LEMMA Merged ==
  ASSUME NEW f \in History!Definitions, NEW c \in History!Changes
  PROVE  History!Applied(f, c) \in History!Definitions
BY DEF History!Applied, History!Definitions, History!Changes

\* Type correctness is preserved by every step.
LEMMA TypeStep == TypeOK /\ [Next]_vars => TypeOK'
<1> SUFFICES ASSUME TypeOK, [Next]_vars PROVE TypeOK'
  OBVIOUS
<1>1. ASSUME NEW h \in Handlers, Return(h) PROVE handler' \in [Handlers -> HandlerStates]
  BY <1>1 DEF Return, TypeOK, HandlerStates
<1>2. ASSUME NEW h \in Handlers, NEW r \in Requests, Start(h, r) PROVE TypeOK'
  <2>1. CASE IdUsed(r)
    BY <1>2, <2>1 DEF Start, Receipt, TypeOK
  <2>2. CASE ~IdUsed(r)
    BY <1>2, <2>2 DEF Start, TypeOK, HandlerStates
  <2> QED BY <2>1, <2>2
<1>3. ASSUME NEW h \in Handlers, Read(h) PROVE TypeOK'
  <2>1. CASE definition.version = handler[h].req.base
    <3>1. definition.files \in History!Definitions /\ handler[h].req \in Requests
      BY <1>3, Carries DEF Read, TypeOK
    <3> QED BY <1>3, <2>1, <3>1 DEF Read, TypeOK, HandlerStates
  <2>2. CASE definition.version # handler[h].req.base
    BY <1>1, <1>3, <2>2 DEF Read, TypeOK
  <2> QED BY <2>1, <2>2
<1>4. ASSUME NEW h \in Handlers, Check(h) PROVE TypeOK'
  <2> DEFINE final == History!Applied(handler[h].files, handler[h].req.changes)
  <2>1. handler[h].req \in Requests /\ final \in History!Definitions
    BY <1>4, Carries, Merged DEF Check
  <2>2. /\ handler' \in [Handlers -> HandlerStates]
        /\ UNCHANGED <<definition, receipts, answers>>
    BY <1>4, <2>1 DEF Check, ToWrite, TypeOK, HandlerStates
  <2> QED BY <2>2 DEF TypeOK
<1>5. ASSUME NEW h \in Handlers, Write(h) PROVE TypeOK'
  <2> DEFINE r == handler[h].req
             d == Carried(r, handler[h].files)
  <2>1. r \in Requests /\ r.base + 1 \in Nat /\ handler[h].files \in History!Definitions
    BY <1>5, Carries DEF Write
  <2>2. d \subseteq Carrieds
    BY <2>1 DEF Carried, Carrieds
  <2>3. definition' \in [version : Nat, files : History!Definitions]
        /\ receipts' \subseteq Carrieds
    BY <1>5, <2>1, <2>2 DEF Write, TypeOK
  <2>4. handler' \in [Handlers -> HandlerStates] /\ answers' \subseteq Carrieds
    <3>1. CASE Tell(h, d)
      BY <1>1, <2>2, <3>1 DEF Tell, TypeOK
    <3>2. CASE handler' = [handler EXCEPT ![h] = [step |-> "lookup", req |-> r]]
               /\ UNCHANGED answers
      BY <2>1, <3>2 DEF TypeOK, HandlerStates
    <3> QED BY <1>5, <3>1, <3>2 DEF Write
  <2> QED BY <2>3, <2>4 DEF TypeOK
<1>6. ASSUME NEW h \in Handlers, WriteFails(h) PROVE TypeOK'
  <2>1. handler[h].req \in Requests
    BY <1>6, Carries DEF WriteFails
  <2> QED BY <1>6, <2>1 DEF WriteFails, TypeOK, HandlerStates
<1>7. ASSUME NEW h \in Handlers, Lookup(h) PROVE TypeOK'
  BY <1>1, <1>7 DEF Lookup, Tell, Receipt, TypeOK
<1>8. ASSUME NEW h \in Handlers, SourceFails(h) \/ Stop(h) PROVE TypeOK'
  BY <1>1, <1>8 DEF SourceFails, Stop, TypeOK
<1>9. CASE UNCHANGED vars
  BY <1>9 DEF vars, TypeOK
<1> QED
  BY <1>2, <1>3, <1>4, <1>5, <1>6, <1>7, <1>8, <1>9 DEF Next

\* Changing one handler to a state without files of its own leaves the others' files current.
LEMMA OthersCurrent ==
  ASSUME TypeOK, HandlersCurrent, UNCHANGED definition, NEW h \in Handlers, NEW s,
         handler' = [handler EXCEPT ![h] = s], s.step \notin {"check", "write"}
  PROVE  HandlersCurrent'
<1>1. ASSUME NEW g \in Handlers PROVE handler'[g] = IF g = h THEN s ELSE handler[g]
  BY DEF TypeOK
<1> QED
  BY <1>1 DEF HandlersCurrent

\* A commit's transaction: what is written is the next version, made from the current files by
\* the changes of a request whose id is new.
LEMMA Committed ==
  ASSUME IInv, NEW h \in Handlers, Write(h)
  PROVE  LET r == handler[h].req IN
         /\ r \in Requests /\ r.base = definition.version
         /\ History!Applicable(definition.files, r.changes)
         /\ handler[h].files = History!Applied(definition.files, r.changes)
         /\ History!Valid(handler[h].files)
         /\ handler[h].files \in History!Definitions
         /\ definition'.version = definition.version + 1 /\ definition'.files = handler[h].files
         /\ receipts' = receipts \cup {[req |-> r, version |-> definition.version + 1,
                                        files |-> handler[h].files]}
         /\ \A c \in receipts : c.req.id # r.id
<1>1. handler[h].step = "write" /\ handler[h].req.base = definition.version
  BY DEF Write, VersionHolds
<1>2. handler[h].req \in Requests /\ handler[h].files \in History!Definitions
  BY <1>1, Carries DEF IInv
<1>3. /\ History!Applicable(definition.files, handler[h].req.changes)
      /\ handler[h].files = History!Applied(definition.files, handler[h].req.changes)
      /\ History!Valid(handler[h].files)
  BY <1>1 DEF IInv, HandlersCurrent
<1> QED
  BY <1>1, <1>2, <1>3 DEF Write, Carried, IdUsed

\* The files that are written are valid.
LEMMA PathsStep == IInv /\ [Next]_vars => NoPathConflict'
<1> SUFFICES ASSUME IInv, [Next]_vars PROVE NoPathConflict'
  OBVIOUS
<1>1. ASSUME NEW h \in Handlers, Write(h) PROVE NoPathConflict'
  BY <1>1, Committed DEF NoPathConflict
<1>2. CASE UNCHANGED definition
  BY <1>2 DEF IInv, NoPathConflict
<1> QED
  BY <1>1, <1>2 DEF Next, vars, Start, Read, Check, SourceFails, WriteFails, Lookup, Stop

\* The receipt that is written has the new version and a new id.
LEMMA ReceiptsStep == IInv /\ [Next]_vars => OneRequestPerVersion'
<1> SUFFICES ASSUME IInv, [Next]_vars PROVE OneRequestPerVersion'
  OBVIOUS
<1>1. ASSUME NEW h \in Handlers, Write(h) PROVE OneRequestPerVersion'
  <2> DEFINE r   == handler[h].req
             new == [req |-> r, version |-> definition.version + 1, files |-> handler[h].files]
  <2>1. /\ definition.version \in Nat /\ definition'.version = definition.version + 1
        /\ receipts' = receipts \cup {new}
        /\ \A c \in receipts : c.req.id # r.id
    BY <1>1, Committed DEF IInv, TypeOK
  <2>2. /\ \A v \in 1..definition.version : \E d \in receipts : d.version = v
        /\ \A c, d \in receipts : c # d => c.version # d.version /\ c.req.id # d.req.id
        /\ \A d \in receipts : d.version \in Nat /\ d.version <= definition.version
    BY DEF IInv, OneRequestPerVersion, TypeOK, Carrieds
  <2>3. new.version = definition.version + 1 /\ new.req.id = r.id
    OBVIOUS
  <2> HIDE DEF new, r
  <2>4. \A v \in 1..definition'.version : \E d \in receipts' : d.version = v
    <3> SUFFICES ASSUME NEW v \in 1..definition'.version
                 PROVE  \E d \in receipts' : d.version = v
      OBVIOUS
    <3>1. CASE v = definition.version + 1
      BY <2>1, <2>3, <3>1
    <3>2. CASE v # definition.version + 1
      BY <2>1, <2>2, <3>2
    <3> QED BY <3>1, <3>2
  <2>5. \A c, d \in receipts' : c # d => c.version # d.version /\ c.req.id # d.req.id
    BY <2>1, <2>2, <2>3
  <2>6. \A d \in receipts' : d.version <= definition'.version
    BY <2>1, <2>2, <2>3
  <2> QED
    BY <2>4, <2>5, <2>6 DEF OneRequestPerVersion
<1>2. CASE UNCHANGED <<definition, receipts>>
  BY <1>2 DEF IInv, OneRequestPerVersion
<1> QED
  BY <1>1, <1>2 DEF Next, vars, Start, Read, Check, SourceFails, WriteFails, Lookup, Stop

\* A handler reads the current files, applies the changes to them, and is out of date as soon
\* as another writes.
LEMMA HandlersStep == IInv /\ [Next]_vars => HandlersCurrent'
<1> SUFFICES ASSUME IInv, [Next]_vars PROVE HandlersCurrent'
  OBVIOUS
<1> USE DEF IInv
<1>1. ASSUME NEW h \in Handlers, Return(h), UNCHANGED definition PROVE HandlersCurrent'
  BY <1>1, OthersCurrent DEF Return, Idle
<1>2. ASSUME NEW h \in Handlers, NEW r \in Requests, Start(h, r) PROVE HandlersCurrent'
  <2>1. CASE IdUsed(r)
    BY <1>2, <2>1 DEF Start, HandlersCurrent
  <2>2. CASE ~IdUsed(r)
    BY <1>2, <2>2, OthersCurrent DEF Start
  <2> QED BY <2>1, <2>2
<1>3. ASSUME NEW h \in Handlers, Read(h) PROVE HandlersCurrent'
  <2>1. CASE definition.version = handler[h].req.base
    <3>1. \A g \in Handlers : handler'[g] =
             IF g = h THEN [step |-> "check", req |-> handler[h].req, files |-> definition.files]
                      ELSE handler[g]
      BY <1>3, <2>1 DEF Read, TypeOK
    <3>2. handler[h].req.base \in Nat /\ UNCHANGED definition
      BY <1>3, Carries DEF Read
    <3> QED BY <2>1, <3>1, <3>2 DEF HandlersCurrent
  <2>2. CASE definition.version # handler[h].req.base
    BY <1>1, <1>3, <2>2 DEF Read
  <2> QED BY <2>1, <2>2
<1>4. ASSUME NEW h \in Handlers, Check(h) PROVE HandlersCurrent'
  <2> DEFINE r     == handler[h].req
             final == History!Applied(handler[h].files, r.changes)
             ok    == History!Applicable(handler[h].files, r.changes) /\ History!Valid(final)
  <2>1. CASE ok
    <3>1. \A g \in Handlers : handler'[g] =
             IF g = h THEN [step |-> "write", req |-> r, files |-> final] ELSE handler[g]
      BY <1>4, <2>1 DEF Check, ToWrite, TypeOK
    <3>2. /\ r.base <= definition.version
          /\ r.base = definition.version => handler[h].files = definition.files
          /\ UNCHANGED definition
      BY <1>4 DEF Check, HandlersCurrent
    <3> QED BY <2>1, <3>1, <3>2 DEF HandlersCurrent
  <2>2. CASE ~ok
    BY <1>1, <1>4, <2>2 DEF Check, ToWrite, Return
  <2> QED BY <2>1, <2>2
<1>5. ASSUME NEW h \in Handlers, Write(h) PROVE HandlersCurrent'
  <2>1. /\ definition.version \in Nat /\ definition'.version = definition.version + 1
        /\ handler[h].step = "write"
    BY <1>5, Committed DEF Write, TypeOK
  <2>2. handler'[h].step \notin {"check", "write"}
        /\ \A g \in Handlers \ {h} : handler'[g] = handler[g]
    BY <1>5 DEF Write, Tell, Return, Idle, TypeOK
  <2>3. \A g \in Handlers \ {h} : handler[g].step \in {"check", "write"} =>
           /\ handler[g].req.base \in Nat /\ handler[g].req.base <= definition.version
           /\ handler[g].step = "write" => History!Valid(handler[g].files)
    BY Carries DEF HandlersCurrent
  <2> QED BY <2>1, <2>2, <2>3 DEF HandlersCurrent
<1>6. ASSUME NEW h \in Handlers, WriteFails(h) PROVE HandlersCurrent'
  BY <1>6, OthersCurrent DEF WriteFails
<1>7. ASSUME NEW h \in Handlers, Lookup(h) PROVE HandlersCurrent'
  BY <1>1, <1>7 DEF Lookup, Tell
<1>8. ASSUME NEW h \in Handlers, SourceFails(h) \/ Stop(h) PROVE HandlersCurrent'
  BY <1>1, <1>8 DEF SourceFails, Stop
<1>9. CASE UNCHANGED vars
  BY <1>9 DEF vars, HandlersCurrent
<1> QED
  BY <1>2, <1>3, <1>4, <1>5, <1>6, <1>7, <1>8, <1>9 DEF Next

\* Answers come from receipts, and no receipt is ever lost.
LEMMA AnswersStep == IInv /\ [Next]_vars => AnswersTrue'
<1> SUFFICES ASSUME AnswersTrue, [Next]_vars PROVE AnswersTrue'
  BY DEF IInv
<1> QED
  BY DEF Next, vars, Start, Read, Check, SourceFails, Write, WriteFails, Lookup, Stop, Tell,
         Receipt, AnswersTrue

\* The invariant holds at the start and every step preserves it.
THEOREM Invariance == Spec => []IInv
<1>1. Init => IInv
  <2> SUFFICES ASSUME Init PROVE IInv
    OBVIOUS
  <2>1. History!Empty \in History!Definitions /\ History!Valid(History!Empty)
    BY AuthorityAssumption DEF History!Empty, History!Definitions, History!Valid
  <2>2. TypeOK
    BY <2>1 DEF Init, TypeOK, NoDefinition, HandlerStates
  <2>3. HandlersCurrent
    BY DEF Init, HandlersCurrent, Idle
  <2> QED
    BY <2>1, <2>2, <2>3
       DEF IInv, Init, NoDefinition, NoPathConflict, OneRequestPerVersion, AnswersTrue
<1>2. IInv /\ [Next]_vars => IInv'
  BY TypeStep, PathsStep, ReceiptsStep, HandlersStep, AnswersStep DEF IInv
<1> QED
  BY <1>1, <1>2, PTL DEF Spec

\* Definition, receipts, answers and handlers always hold values of their kind.
THEOREM TypeCorrect == Spec => []TypeOK
BY Invariance, PTL DEF IInv

\* No official version ever holds a path that is a file and a folder.
THEOREM PathsAgree == Spec => []NoPathConflict
BY Invariance, PTL DEF IInv

\* Every version has exactly one request, whatever was repeated, reused or overtaken.
THEOREM ExactlyOnce == Spec => []OneRequestPerVersion
BY Invariance, PTL DEF IInv
-----------------------------------------------------------------------------
\* The receipts of a request are one at most, so an answer is the answer.
LEMMA ReceiptIsOne ==
  ASSUME OneRequestPerVersion, NEW r, NEW d \in Receipt(r)
  PROVE  Receipt(r) = {d}
BY DEF Receipt, OneRequestPerVersion

\* Each step is a step of the history: an accepted request, an answer, or nothing.
LEMMA HistoryStep == IInv /\ [Next]_vars => [History!Next]_(History!vars)
<1> SUFFICES ASSUME IInv, [Next]_vars PROVE [History!Next]_(History!vars)
  OBVIOUS
<1>1. ASSUME NEW r, answers' = answers \cup Receipt(r), UNCHANGED <<definition, receipts>>
      PROVE  [History!Next]_(History!vars)
  <2>1. CASE Receipt(r) = {}
    BY <1>1, <2>1 DEF History!vars
  <2>2. CASE Receipt(r) # {}
    <3>1. PICK d \in Receipt(r) : TRUE
      BY <2>2
    <3>2. Receipt(r) = {d} /\ d \in receipts
      BY <3>1, ReceiptIsOne DEF IInv, Receipt
    <3>3. History!Answer(d)
      BY <1>1, <3>2 DEF History!Answer
    <3> QED BY <3>2, <3>3 DEF History!Next
  <2> QED BY <2>1, <2>2
<1>2. ASSUME NEW h \in Handlers, Write(h) PROVE History!Next
  <2> DEFINE r   == handler[h].req
             new == [req |-> r, version |-> definition.version + 1, files |-> handler[h].files]
  <2>1. /\ r \in Requests /\ r.base = definition.version
        /\ History!Applicable(definition.files, r.changes)
        /\ handler[h].files = History!Applied(definition.files, r.changes)
        /\ History!Valid(handler[h].files)
        /\ definition'.version = definition.version + 1 /\ definition'.files = handler[h].files
        /\ receipts' = receipts \cup {new}
        /\ \A c \in receipts : c.req.id # r.id
    BY <1>2, Committed
  <2>2. receipts' \ receipts = {new}
    <3>1. new \notin receipts
      BY <2>1
    <3> QED BY <2>1, <3>1
  <2>3. answers' \in {answers, answers \cup {new}}
    BY <1>2, <2>1 DEF Write, Tell, Carried
  <2> HIDE DEF r
  <2>4. History!Accept(r)
    BY <2>1, <2>2, <2>3 DEF History!Accept
  <2> QED BY <2>1, <2>4 DEF History!Next
<1>3. ASSUME NEW h \in Handlers, NEW r \in Requests, Start(h, r)
      PROVE  [History!Next]_(History!vars)
  <2>1. CASE IdUsed(r)
    BY <1>1, <1>3, <2>1 DEF Start
  <2>2. CASE ~IdUsed(r)
    BY <1>3, <2>2 DEF Start, History!vars
  <2> QED BY <2>1, <2>2
<1>4. ASSUME NEW h \in Handlers, Lookup(h) PROVE [History!Next]_(History!vars)
  BY <1>1, <1>4 DEF Lookup, Tell
<1>5. CASE UNCHANGED <<definition, receipts, answers>>
  BY <1>5 DEF History!vars
<1> QED
  BY <1>2, <1>3, <1>4, <1>5 DEF Next, vars, Read, Check, SourceFails, WriteFails, Stop

\* Commits are atomic and answers true: the theorem that the version check and the receipt,
\* written in one transaction, are for.
THEOREM Refinement == Spec => ImplementsHistory
<1>1. Init => History!Init
  BY DEF Init, NoDefinition, History!Init
<1>2. Spec => []IInv
  BY Invariance
<1> QED
  BY <1>1, <1>2, HistoryStep, PTL DEF Spec, ImplementsHistory, History!Spec
=============================================================================
