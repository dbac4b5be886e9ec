------------------------ MODULE MaterialDelivery_proofs ------------------------
(***************************************************************************)
(* What any number of executions, with leases that run out, crashes and    *)
(* lost answers, can do to one delivery of any number of stages.           *)
(***************************************************************************)
EXTENDS MaterialDelivery, AiCreditLedger_proofs, SequenceTheorems

\* Steps at an attempt of a stage, and those of them before its POST.
AtStage    == {"check", "permit", "post", "answer", "query", "complete", "save", "record",
               "fail", "discard"}
BeforePost == {"check", "permit", "post"}
Preparing  == {"start", "receipt", "recover"}
Plans      == {"mark", "check", "turn", "final", "giveup"}

\* Locals that rest on where the document stands, and the place they rest on.
Rests(r) == r.at \in Preparing \cup AtStage \cup Plans
Plan(r)  == IF r.at \in Preparing THEN r.next ELSE IF r.at \in AtStage THEN "check" ELSE r.at
Works(r) == r.at \in {"reserve", "link"} \/ Rests(r)

\* The attempt to go on with on document d.
Target(d) == IF NextStep(d) = "check" THEN LastIn(Of(d, Current(d))) ELSE 0

JobStates == {"none", "processing", "good", "bad", "rejected", "failed"}
Ended     == {"good", "bad", "rejected", "failed"}
Answered  == {"good", "bad", "rejected"}
Usable    == {"good", "rejected"}

\* Every call of some stage came to nothing, or the last image was rejected.
Hopeless ==
  \/ \E stage \in Stages :
       /\ Cardinality(Of(doc, stage)) = MaxStageAttempts
       /\ \A n \in Of(doc, stage) : IsDead(n)
  \/ \E n \in Of(doc, <<"review", MaxCandidates>>) : job[n] = "rejected"

\* The attempts of the document, their jobs and their files.
ShapeInv ==
  /\ doc \in Document /\ Len(doc.attempts) <= SequenceBound
  /\ job \in [Sequences -> JobStates]
  /\ posts \in [Sequences -> 0 .. 1]
  /\ file \in [Sequences -> {"none", "proof", "result"}]
CourseInv ==
  /\ \A n \in 1 .. Len(doc.attempts) :
       /\ doc.attempts[n].status = "succeeded" => job[n] \in Usable
       /\ doc.attempts[n].status = "failed" => IsDead(n)
  /\ \A m, n \in 1 .. Len(doc.attempts) :
       m < n /\ doc.attempts[m].stage = doc.attempts[n].stage => IsDead(m)
  /\ \A stage \in Stages : Cardinality(Of(doc, stage)) <= MaxStageAttempts
  /\ \A n \in Sequences : /\ file[n] = "proof" => job[n] \in Answered
                          /\ file[n] = "result" => job[n] \in Usable
                          /\ n > Len(doc.attempts) =>
                               posts[n] = 0 /\ job[n] = "none" /\ file[n] = "none"

\* Locals that agree with rows, files and jobs, whoever holds the lease.
Fits(r) ==
  /\ r \in Run
  /\ r.claimed <= Len(doc.attempts) /\ r.n <= Len(doc.attempts)
  /\ r.at \in AtStage => r.n >= 1
  /\ r.at = "post" => r.n > r.claimed
  /\ r.at \in Preparing => /\ r.next \in Plans /\ r.n <= r.claimed
                           /\ r.next = "check" => r.n >= 1
  /\ r.at = "link" /\ r.status \in Final =>
       tasks[Key].status = r.status /\ tasks[Key].result = r.bill
  /\ r.at \in {"complete", "save"} => job[r.n] \in Answered
  /\ r.at = "record" => job[r.n] \in Usable
  /\ r.at = "fail" => job[r.n] = "failed"
  /\ r.at = "discard" => job[r.n] = "bad" /\ doc.attempts[r.n].stage[1] # "main"
  /\ r.at = "pack" => NextStep(doc) = "final"
  /\ r.at \in {"settle", "bill", "close"} => package # NoPackage /\ package.digest = r.digest
  /\ r.at = "close" => tasks[Key].status = "succeeded" /\ tasks[Key].result = r.digest
  /\ r.at = "refund" => Hopeless
  /\ r.at = "bury" => tasks[Key].status = "failed"
LocalsInv == run \in [Workers -> Run] /\ \A w \in Workers : Fits(run[w])

\* The execution the lease names knows where the document stands, has newer
\* attempts than the others, and left none of its own unresolved.
LeaseInv ==
  \A v \in Workers : doc.owner = v /\ Works(run[v]) =>
    /\ Rests(run[v]) => Plan(run[v]) = NextStep(doc) /\ run[v].n = Target(doc)
    /\ ~Rests(run[v]) => run[v].n = 0
    /\ \A w \in Workers \ {v} : run[w].n <= run[v].claimed
    /\ \A m \in 1 .. Len(doc.attempts) :
         m > run[v].claimed /\ m # run[v].n => doc.attempts[m].status \notin Unresolved

\* A marker that may be posted has not been, and is one execution's.
MayPost(r) == r.at \in BeforePost /\ r.n > r.claimed
MarkerInv ==
  /\ \A w \in Workers : MayPost(run[w]) =>
       posts[run[w].n] = 0 /\ job[run[w].n] = "none"
  /\ \A v, w \in Workers :
       MayPost(run[v]) /\ MayPost(run[w]) /\ run[v].n = run[w].n => v = w

\* The final file holds the image the document ends with.
PackageInv ==
  /\ package \in Package \cup {NoPackage}
  /\ package # NoPackage => NextStep(doc) = "final" /\ package.candidate = doc.candidate

\* What the ledger and the document say of the end.
BillsInv ==
  /\ tasks[Key].status = "failed" /\ ~reviewed => Hopeless
  /\ tasks[Key].status = "succeeded" /\ ~reviewed =>
       package # NoPackage /\ package.digest = tasks[Key].result
  /\ doc.status = "succeeded" =>
       /\ tasks[Key].status = "succeeded" /\ doc.final = tasks[Key].result
       /\ package # NoPackage /\ package.digest = doc.final
  /\ doc.status = "failed" => tasks[Key].status = "failed"

RestInv ==
  /\ item \in {"queued", "ours", "taken"} /\ expired \in BOOLEAN /\ source \in BOOLEAN
  /\ reviewed \in BOOLEAN /\ faults \in 0 .. FaultBound

DInv == /\ TypeOK /\ RowsLinked /\ ShapeInv /\ CourseInv /\ LocalsInv /\ LeaseInv
        /\ MarkerInv /\ PackageInv /\ BillsInv /\ RestInv

-----------------------------------------------------------------------------
LEMMA KeyIsRow == Key \in Keys
BY DeliveryAssumption DEF Key

LEMMA LastIsLast ==
  ASSUME NEW b \in Nat, NEW S \in SUBSET (1 .. b), S # {}
  PROVE  LastIn(S) \in S /\ \A n \in S : n <= LastIn(S)
<1>1. S \in SUBSET (0 .. b)
  OBVIOUS
<1>2. \E m \in S : \A n \in S : n <= m
  BY <1>1, GreatestNatural
<1>3. QED
  BY <1>2 DEF LastIn

LEMMA Concatenated ==
  ASSUME NEW S, NEW s \in Seq(S), NEW t \in Seq(S), NEW c, c = s \o t
  PROVE  /\ c \in Seq(S) /\ Len(c) = Len(s) + Len(t)
         /\ \A i \in 1 .. Len(s) + Len(t) : c[i] = IF i <= Len(s) THEN s[i] ELSE t[i - Len(s)]
BY ConcatProperties

\* The stages of a document are those of the quote, the image and its review last.
LEMMA CourseShape ==
  ASSUME NEW d \in Document
  PROVE  /\ Len(Prelude) \in Nat /\ DOMAIN Course(d) = 1 .. Len(Prelude) + 2
         /\ \A i \in DOMAIN Course(d) : Course(d)[i] \in Stages
         /\ Course(d)[Len(Prelude) + 1] = <<"main", d.candidate>>
         /\ Course(d)[Len(Prelude) + 2] = <<"review", d.candidate>>
<1> DEFINE L == Len(Prelude)
           head == [i \in 1 .. L |-> <<Prelude[i], 0>>]
           tail == << <<"main", d.candidate>>, <<"review", d.candidate>> >>
<1>1. L \in Nat /\ DOMAIN Prelude = 1 .. L
  BY DeliveryAssumption
<1>2. d.candidate \in 1 .. MaxCandidates
  BY DEF Document
<1>3. /\ \A i \in 1 .. L : <<Prelude[i], 0>> \in Stages
      /\ <<"main", d.candidate>> \in Stages /\ <<"review", d.candidate>> \in Stages
  BY <1>1, <1>2 DEF Stages
<1>4. head \in Seq(Stages) /\ Len(head) = L
  <2>1. head \in [1 .. L -> Stages]
    BY <1>3
  <2> HIDE DEF head
  <2>2. QED
    BY <1>1, <2>1
<1>5. tail \in Seq(Stages) /\ Len(tail) = 2
  BY <1>3
<1>6. Course(d) = head \o tail
  BY DEF Course
<1>7. tail[1] = <<"main", d.candidate>> /\ tail[2] = <<"review", d.candidate>>
  OBVIOUS
<1> HIDE DEF head, tail
<1>8. /\ Course(d) \in Seq(Stages) /\ DOMAIN Course(d) = 1 .. L + 2
      /\ Course(d)[L + 1] = tail[1] /\ Course(d)[L + 2] = tail[2]
  <2> DEFINE c == Course(d)
  <2>1. c = head \o tail
    BY <1>6
  <2> HIDE DEF c
  <2>2. /\ c \in Seq(Stages) /\ Len(c) = Len(head) + Len(tail)
        /\ \A i \in 1 .. Len(head) + Len(tail) :
             c[i] = IF i <= Len(head) THEN head[i] ELSE tail[i - Len(head)]
    <3>1. head \in Seq(Stages) /\ tail \in Seq(Stages)
      BY <1>4, <1>5
    <3>2. QED
      BY <2>1, <3>1, Concatenated
  <2>3. c[L + 1] = tail[1] /\ c[L + 2] = tail[2] /\ Len(c) = L + 2
    BY <1>1, <1>4, <1>5, <2>2, SMTT(40)
  <2>4. QED
    BY <1>1, <2>2, <2>3 DEF c
<1>9. QED
  BY <1>1, <1>7, <1>8

LEMMA OfShape ==
  ASSUME NEW d \in Document, NEW stage
  PROVE  /\ Len(d.attempts) \in Nat /\ DOMAIN d.attempts = 1 .. Len(d.attempts)
         /\ d.attempts \in Seq(StageAttempt)
         /\ \A n \in 1 .. Len(d.attempts) : d.attempts[n] \in StageAttempt
         /\ Of(d, stage) \in SUBSET (1 .. Len(d.attempts))
         /\ IsFiniteSet(Of(d, stage)) /\ Cardinality(Of(d, stage)) \in Nat
         /\ Of(d, stage) # {} => /\ LastIn(Of(d, stage)) \in Of(d, stage)
                                 /\ \A n \in Of(d, stage) : n <= LastIn(Of(d, stage))
<1>1. /\ Len(d.attempts) \in Nat /\ DOMAIN d.attempts = 1 .. Len(d.attempts)
      /\ d.attempts \in Seq(StageAttempt)
      /\ \A n \in 1 .. Len(d.attempts) : d.attempts[n] \in StageAttempt
  BY DEF Document
<1>2. Of(d, stage) \in SUBSET (1 .. Len(d.attempts))
  BY DEF Of
<1>3. IsFiniteSet(1 .. Len(d.attempts))
  BY <1>1, FS_Interval
<1>4. IsFiniteSet(Of(d, stage))
  BY <1>2, <1>3, FS_Subset
<1>5. QED
  BY <1>1, <1>2, <1>4, FS_CardinalityType, LastIsLast

LEMMA CurrentStage ==
  ASSUME NEW d \in Document
  PROVE  /\ ToDo(d) # {} => Current(d) \in Stages /\ ~IsDone(d, Current(d))
         /\ ToDo(d) = {} => /\ IsDone(d, <<"main", d.candidate>>)
                            /\ IsDone(d, <<"review", d.candidate>>)
<1> DEFINE c == Course(d)  L == Len(Prelude)
<1>1. /\ L \in Nat /\ DOMAIN c = 1 .. L + 2 /\ \A i \in DOMAIN c : c[i] \in Stages
      /\ c[L + 1] = <<"main", d.candidate>> /\ c[L + 2] = <<"review", d.candidate>>
  BY CourseShape
<1>2. /\ ToDo(d) = {i \in DOMAIN c : ~IsDone(d, c[i])}
      /\ Current(d) = c[CHOOSE i \in ToDo(d) : \A other \in ToDo(d) : i <= other]
  BY DEF ToDo, Current
<1> HIDE DEF c, L
<1>3. ASSUME ToDo(d) # {}
      PROVE  Current(d) \in Stages /\ ~IsDone(d, Current(d))
  <2>1. ToDo(d) \in SUBSET Nat
    BY <1>1, <1>2
  <2>2. PICK i \in ToDo(d) : Current(d) = c[i]
    BY <1>2, <1>3, <2>1, LeastNatural
  <2>3. QED
    BY <1>1, <1>2, <2>2
<1>4. ASSUME ToDo(d) = {}
      PROVE  IsDone(d, <<"main", d.candidate>>) /\ IsDone(d, <<"review", d.candidate>>)
  <2>1. L + 1 \in DOMAIN c /\ L + 2 \in DOMAIN c
    BY <1>1
  <2>2. QED
    BY <1>1, <1>2, <1>4, <2>1
<1>5. QED
  BY <1>3, <1>4

\* What the next step says of the document.
PlanFacts(d) ==
  /\ NextStep(d) \in Plans
  /\ Target(d) \in 0 .. Len(d.attempts)
  /\ NextStep(d) # "check" => Target(d) = 0
  /\ NextStep(d) = "final" => /\ IsDone(d, <<"main", d.candidate>>)
                              /\ IsDone(d, <<"review", d.candidate>>) /\ IsAccepted(d)
  /\ NextStep(d) = "turn" => /\ d.candidate < MaxCandidates
  /\ NextStep(d) = "giveup" =>
       \/ /\ IsDone(d, <<"review", d.candidate>>) /\ ~IsAccepted(d)
          /\ ~(d.candidate < MaxCandidates)
       \/ \E stage \in Stages :
            /\ Of(d, stage) # {} /\ d.attempts[LastIn(Of(d, stage))].status = "failed"
            /\ ~(Cardinality(Of(d, stage)) < MaxStageAttempts)
  /\ NextStep(d) \in {"mark", "check"} => Current(d) \in Stages /\ ~IsDone(d, Current(d))
  /\ NextStep(d) = "mark" /\ Of(d, Current(d)) # {} =>
       /\ d.attempts[LastIn(Of(d, Current(d)))].status = "failed"
       /\ Cardinality(Of(d, Current(d))) < MaxStageAttempts
  /\ NextStep(d) = "check" =>
       /\ Target(d) >= 1 /\ Target(d) = LastIn(Of(d, Current(d)))
       /\ Target(d) \in Of(d, Current(d))
       /\ d.attempts[Target(d)].status \in Unresolved

LEMMA PlanMeans ==
  ASSUME NEW d \in Document
  PROVE  PlanFacts(d)
<1> DEFINE c == Current(d)  made == Of(d, c)
<1>1. /\ ToDo(d) # {} => c \in Stages /\ ~IsDone(d, c)
      /\ ToDo(d) = {} => /\ IsDone(d, <<"main", d.candidate>>)
                         /\ IsDone(d, <<"review", d.candidate>>)
  BY CurrentStage
<1>2. /\ Len(d.attempts) \in Nat /\ made \in SUBSET (1 .. Len(d.attempts))
      /\ \A n \in 1 .. Len(d.attempts) : d.attempts[n] \in StageAttempt
      /\ made # {} => LastIn(made) \in made
  BY OfShape
<1>3. NextStep(d) = IF ToDo(d) = {} THEN IF IsAccepted(d) THEN "final"
                                         ELSE IF d.candidate < MaxCandidates THEN "turn"
                                         ELSE "giveup"
                    ELSE IF made = {} THEN "mark"
                    ELSE IF d.attempts[LastIn(made)].status # "failed" THEN "check"
                    ELSE IF Cardinality(made) < MaxStageAttempts THEN "mark" ELSE "giveup"
  BY DEF NextStep, IsCandidateLeft, IsOver
<1>4. Target(d) = IF NextStep(d) = "check" THEN LastIn(made) ELSE 0
  BY DEF Target
<1>5. IsDone(d, c) <=> made # {} /\ d.attempts[LastIn(made)].status = "succeeded"
  BY DEF IsDone
<1> HIDE DEF c, made
<1>6. ASSUME ToDo(d) # {}, made # {}, d.attempts[LastIn(made)].status # "failed"
      PROVE  /\ LastIn(made) \in 1 .. Len(d.attempts) /\ LastIn(made) \in made
             /\ d.attempts[LastIn(made)].status \in Unresolved
  BY <1>1, <1>2, <1>5, <1>6 DEF StageAttempt, Unresolved
<1>7. NextStep(d) = "check" => ToDo(d) # {} /\ made # {} /\ d.attempts[LastIn(made)].status # "failed"
  BY <1>3
<1>8. Target(d) \in 0 .. Len(d.attempts)
  BY <1>2, <1>4, <1>6, <1>7
<1>9. NextStep(d) = "giveup" /\ ToDo(d) # {} =>
        /\ c \in Stages /\ made = Of(d, c)
        /\ made # {} /\ d.attempts[LastIn(made)].status = "failed"
        /\ ~(Cardinality(made) < MaxStageAttempts)
  BY <1>1, <1>3 DEF made
<1>10. NextStep(d) \in {"mark", "check"} => ToDo(d) # {}
  BY <1>3
<1>11. /\ NextStep(d) \in Plans
       /\ NextStep(d) = "final" => ToDo(d) = {} /\ IsAccepted(d)
       /\ NextStep(d) = "turn" => d.candidate < MaxCandidates
       /\ NextStep(d) = "giveup" /\ ToDo(d) = {} => ~IsAccepted(d) /\ ~(d.candidate < MaxCandidates)
       /\ NextStep(d) = "mark" /\ made # {} =>
            d.attempts[LastIn(made)].status = "failed" /\ Cardinality(made) < MaxStageAttempts
  BY <1>3 DEF Plans
<1>12. QED
  <2>1. NextStep(d) = "check" => LastIn(made) >= 1
    BY <1>2, <1>6, <1>7
  <2>2. QED
    BY <1>1, <1>4, <1>6, <1>7, <1>8, <1>9, <1>10, <1>11, <2>1 DEF PlanFacts, made, c

-----------------------------------------------------------------------------
\* A step after which the document stands where it stood, whatever else it says, and
\* one after which every job that had ended still ends as it did.
SameCourse ==
  /\ doc' \in Document /\ doc'.candidate = doc.candidate
  /\ Len(doc'.attempts) = Len(doc.attempts)
  /\ \A n \in 1 .. Len(doc.attempts) :
       /\ doc'.attempts[n].stage = doc.attempts[n].stage
       /\ \/ doc'.attempts[n].status = doc.attempts[n].status
          \/ doc'.attempts[n].status \in Unresolved /\ doc.attempts[n].status \in Unresolved
JobsKept ==
  /\ job' \in [Sequences -> JobStates]
  /\ \A n \in Sequences : job[n] \in Ended => job'[n] = job[n]

LEMMA AttemptIsSequence ==
  ASSUME ShapeInv
  PROVE  /\ Len(doc.attempts) \in Nat /\ SequenceBound \in Nat
         /\ \A n \in 1 .. Len(doc.attempts) : n \in Sequences /\ doc.attempts[n] \in StageAttempt
BY OfShape, DeliveryAssumption DEF ShapeInv, Sequences

\* Dead jobs stay dead.
LEMMA DeadStay ==
  ASSUME ShapeInv, SameCourse, JobsKept, NEW n \in 1 .. Len(doc.attempts), IsDead(n)
  PROVE  IsDead(n)'
<1>1. n \in Sequences
  BY AttemptIsSequence
<1>2. job'[n] = job[n]
  BY <1>1 DEF IsDead, JobsKept, Ended
<1>3. QED
  BY <1>2 DEF IsDead, SameCourse

\* Where the document stands depends on nothing that such steps change.
LEMMA CourseKept ==
  ASSUME ShapeInv, CourseInv, SameCourse, JobsKept
  PROVE  /\ \A stage : Of(doc', stage) = Of(doc, stage)
         /\ Current(doc') = Current(doc)
         /\ NextStep(doc)' = NextStep(doc) /\ Target(doc)' = Target(doc)
         /\ Hopeless => Hopeless'
<1> DEFINE L == Len(doc.attempts)
<1>1. /\ doc \in Document /\ doc' \in Document /\ Len(doc'.attempts) = L /\ L \in Nat
      /\ doc'.candidate = doc.candidate
  BY OfShape DEF ShapeInv, SameCourse
<1>2. \A stage : Of(doc', stage) = Of(doc, stage)
  BY <1>1 DEF Of, SameCourse
<1>3. \A stage : Of(doc, stage) # {} => LastIn(Of(doc, stage)) \in 1 .. L
  BY <1>1, OfShape
<1>4. \A stage : IsDone(doc', stage) = IsDone(doc, stage)
  BY <1>1, <1>2, <1>3 DEF IsDone, SameCourse, Unresolved
<1>5. Course(doc') = Course(doc)
  BY <1>1 DEF Course
<1>6. ToDo(doc') = ToDo(doc) /\ Current(doc') = Current(doc)
  <2>1. ToDo(doc') = ToDo(doc)
    BY <1>4, <1>5 DEF ToDo
  <2>2. QED
    BY <2>1, <1>5 DEF Current
<1>7. ToDo(doc) = {} => IsAccepted(doc)' = IsAccepted(doc)
  <2> SUFFICES ASSUME ToDo(doc) = {} PROVE IsAccepted(doc)' = IsAccepted(doc)
    OBVIOUS
  <2> DEFINE review == <<"review", doc.candidate>>  n == LastIn(Of(doc, review))
  <2>1. IsDone(doc, review)
    BY <1>1, CurrentStage
  <2>2. n \in 1 .. L /\ doc.attempts[n].status = "succeeded"
    BY <1>3, <2>1 DEF IsDone
  <2>3. job[n] \in Usable /\ n \in Sequences
    BY <2>2, AttemptIsSequence DEF CourseInv
  <2>4. job'[n] = job[n]
    BY <2>3 DEF JobsKept, Usable, Ended
  <2>5. QED
    BY <1>1, <1>2, <2>4 DEF IsAccepted
<1>8. NextStep(doc)' = NextStep(doc)
  <2> DEFINE made == Of(doc, Current(doc))
  <2>1. Of(doc', Current(doc')) = made /\ (made # {} => LastIn(made) \in 1 .. L)
    BY <1>2, <1>3, <1>6
  <2>2. made # {} => (doc'.attempts[LastIn(made)].status = "failed"
                       <=> doc.attempts[LastIn(made)].status = "failed")
    BY <2>1 DEF SameCourse, Unresolved
  <2> HIDE DEF made
  <2>3. QED
    BY <1>1, <1>6, <1>7, <2>1, <2>2 DEF NextStep, IsOver, IsCandidateLeft, made
<1>9. Target(doc)' = Target(doc)
  BY <1>2, <1>6, <1>8 DEF Target
<1>10. ASSUME Hopeless PROVE Hopeless'
  <2>1. CASE \E stage \in Stages :
               /\ Cardinality(Of(doc, stage)) = MaxStageAttempts
               /\ \A n \in Of(doc, stage) : IsDead(n)
    <3>1. PICK stage \in Stages : /\ Cardinality(Of(doc, stage)) = MaxStageAttempts
                                  /\ \A n \in Of(doc, stage) : IsDead(n)
      BY <2>1
    <3>2. \A n \in Of(doc', stage) : IsDead(n)'
      <4> SUFFICES ASSUME NEW n \in Of(doc, stage) PROVE IsDead(n)'
        BY <1>2
      <4>1. n \in 1 .. L /\ IsDead(n)
        BY <3>1, <1>1, OfShape
      <4>2. QED
        BY <4>1, DeadStay
    <3>3. QED
      BY <1>2, <3>1, <3>2 DEF Hopeless
  <2>2. CASE \E n \in Of(doc, <<"review", MaxCandidates>>) : job[n] = "rejected"
    <3>1. PICK n \in Of(doc, <<"review", MaxCandidates>>) : job[n] = "rejected"
      BY <2>2
    <3>2. n \in Sequences
      BY <1>1, OfShape, AttemptIsSequence
    <3>3. job'[n] = "rejected"
      BY <3>1, <3>2 DEF JobsKept, Ended
    <3>4. QED
      BY <1>2, <3>1, <3>3 DEF Hopeless
  <2>3. QED
    BY <1>10, <2>1, <2>2 DEF Hopeless
<1>11. QED
  BY <1>2, <1>6, <1>8, <1>9, <1>10

-----------------------------------------------------------------------------
\* Steps that leave the document where it stands.  Such a step keeps the ends of
\* jobs and of the task and the final file, and says of the end only what is so.
PackageKept ==
  \/ package' = package
  \/ /\ package = NoPackage /\ package' \in Package
     /\ NextStep(doc) = "final" /\ package'.candidate = doc.candidate
FilesKept ==
  /\ posts' \in [Sequences -> 0 .. 1]
  /\ file' \in [Sequences -> {"none", "proof", "result"}]
  /\ \A n \in Sequences : /\ file'[n] = "proof" => job'[n] \in Answered
                          /\ file'[n] = "result" => job'[n] \in Usable
                          /\ n > Len(doc.attempts) =>
                               posts'[n] = 0 /\ job'[n] = "none" /\ file'[n] = "none"
RowsKept ==
  /\ TypeOK' /\ RowsLinked' /\ RestInv'
  /\ tasks[Key].status \in Final => tasks'[Key] = tasks[Key]
TaskEnds ==
  /\ reviewed => reviewed'
  /\ tasks'[Key].status = "failed" /\ ~reviewed' => tasks[Key].status = "failed" \/ Hopeless
  /\ tasks'[Key].status = "succeeded" /\ ~reviewed' =>
       \/ tasks[Key].status = "succeeded"
       \/ package # NoPackage /\ package.digest = tasks'[Key].result
DocumentEnds ==
  /\ doc'.status = "succeeded" =>
       \/ doc.status = "succeeded" /\ doc'.final = doc.final
       \/ /\ tasks[Key].status = "succeeded" /\ doc'.final = tasks[Key].result
          /\ package # NoPackage /\ package.digest = doc'.final
  /\ doc'.status = "failed" => doc.status = "failed" \/ tasks[Key].status = "failed"
Steady == SameCourse /\ JobsKept /\ PackageKept /\ FilesKept /\ RowsKept /\ TaskEnds /\ DocumentEnds

\* What an execution may do in such a step: nothing, or go on as its lease says.
Continues(v) ==
  /\ Works(run[v]) /\ doc.owner = v
  /\ run'[v].claimed = run[v].claimed /\ run[v].n \in {0, run'[v].n}
  /\ Rests(run'[v]) => Plan(run'[v]) = NextStep(doc) /\ run'[v].n = Target(doc)
  /\ ~Rests(run'[v]) => run'[v].n = 0
Moves(v) ==
  \/ run'[v] = run[v]
  \/ /\ Fits(run[v])'
     /\ run'[v].n \in {0, run[v].n} \/ doc.owner = v
     /\ MayPost(run'[v]) => MayPost(run[v]) /\ run'[v].n = run[v].n
     /\ doc'.owner = v /\ Works(run'[v]) => Continues(v)
Unposted ==
  \A v \in Workers : MayPost(run'[v]) =>
    posts'[run'[v].n] = posts[run'[v].n] /\ job'[run'[v].n] = job[run'[v].n]

LEMMA FitsKept ==
  ASSUME DInv, Steady, NEW v \in Workers, run'[v] = run[v]
  PROVE  Fits(run[v])'
<1> DEFINE L == Len(doc.attempts)
<1>0. PICK r : r = run[v]
  OBVIOUS
<1>1. Fits(r) /\ ShapeInv /\ CourseInv /\ PackageInv
  BY <1>0 DEF DInv, LocalsInv
<1>2. /\ NextStep(doc)' = NextStep(doc) /\ (Hopeless => Hopeless')
      /\ Len(doc'.attempts) = L /\ L \in Nat
  BY <1>1, CourseKept, AttemptIsSequence DEF Steady, SameCourse
<1>3. r \in Run /\ r.n \in Nat /\ r.n <= L /\ r.claimed <= L
  BY <1>1 DEF Fits, Run, Sequences
<1>4. r.at \in AtStage => r.n \in 1 .. L /\ r.n \in Sequences
  BY <1>1, <1>2, <1>3, AttemptIsSequence DEF Fits
<1>5. package # NoPackage => package' = package
  BY DEF Steady, PackageKept
<1>6. /\ r.at \in {"complete", "save"} => job'[r.n] \in Answered
      /\ r.at = "record" => job'[r.n] \in Usable
      /\ r.at = "fail" => job'[r.n] = "failed"
      /\ r.at = "discard" => job'[r.n] = "bad" /\ doc'.attempts[r.n].stage[1] # "main"
  BY <1>1, <1>4 DEF Fits, Steady, JobsKept, SameCourse, AtStage, Answered, Usable, Ended
<1>7. /\ r.at = "link" /\ r.status \in Final =>
           tasks'[Key].status = r.status /\ tasks'[Key].result = r.bill
      /\ r.at = "close" => tasks'[Key].status = "succeeded" /\ tasks'[Key].result = r.digest
      /\ r.at = "bury" => tasks'[Key].status = "failed"
  BY <1>1 DEF Fits, Steady, RowsKept, Final
<1>8. /\ r.at = "pack" => NextStep(doc)' = "final"
      /\ r.at = "refund" => Hopeless'
      /\ r.at \in {"settle", "bill", "close"} => package' # NoPackage /\ package'.digest = r.digest
      /\ r.at \in AtStage => r.n >= 1
      /\ r.at = "post" => r.n > r.claimed
      /\ r.at \in Preparing => /\ r.next \in Plans /\ r.n <= r.claimed
                               /\ r.next = "check" => r.n >= 1
  BY <1>1, <1>2, <1>5 DEF Fits
<1>9. r = run'[v]
  BY <1>0
<1>10. Fits(r)'
  BY <1>2, <1>3, <1>6, <1>7, <1>8 DEF Fits
<1>11. QED
  BY <1>9, <1>10

LEMMA CourseInvKept ==
  ASSUME DInv, Steady
  PROVE  ShapeInv' /\ CourseInv'
<1> DEFINE L == Len(doc.attempts)
<1>1. /\ ShapeInv /\ CourseInv /\ SameCourse /\ JobsKept /\ FilesKept
      /\ Len(doc'.attempts) = L /\ L \in Nat
  BY AttemptIsSequence DEF DInv, Steady, SameCourse
<1>2. ShapeInv'
  BY <1>1 DEF ShapeInv, SameCourse, JobsKept, FilesKept
<1>3. \A n \in 1 .. L : IsDead(n) => IsDead(n)'
  BY <1>1, DeadStay
<1>4. \A n \in 1 .. Len(doc'.attempts) :
        /\ doc'.attempts[n].status = "succeeded" => job'[n] \in Usable
        /\ doc'.attempts[n].status = "failed" => IsDead(n)'
  <2> SUFFICES ASSUME NEW n \in 1 .. L
               PROVE  /\ doc'.attempts[n].status = "succeeded" => job'[n] \in Usable
                      /\ doc'.attempts[n].status = "failed" => IsDead(n)'
    BY <1>1
  <2>1. n \in Sequences
    BY <1>1, AttemptIsSequence
  <2>2. /\ doc'.attempts[n].status = "succeeded" => doc.attempts[n].status = "succeeded"
        /\ doc'.attempts[n].status = "failed" => doc.attempts[n].status = "failed"
    BY <1>1 DEF SameCourse, Unresolved
  <2>3. job[n] \in Usable => job'[n] \in Usable
    BY <1>1, <2>1 DEF JobsKept, Usable, Ended
  <2>4. QED
    BY <1>1, <1>3, <2>2, <2>3 DEF CourseInv
<1>5. \A m, n \in 1 .. Len(doc'.attempts) :
        m < n /\ doc'.attempts[m].stage = doc'.attempts[n].stage => IsDead(m)'
  BY <1>1, <1>3 DEF CourseInv, SameCourse
<1>6. \A stage \in Stages : Cardinality(Of(doc', stage)) <= MaxStageAttempts
  BY <1>1, CourseKept DEF CourseInv
<1>7. \A n \in Sequences : /\ file'[n] = "proof" => job'[n] \in Answered
                           /\ file'[n] = "result" => job'[n] \in Usable
                           /\ n > Len(doc'.attempts) =>
                                posts'[n] = 0 /\ job'[n] = "none" /\ file'[n] = "none"
  BY <1>1 DEF FilesKept
<1>8. CourseInv'
  BY <1>4, <1>5, <1>6, <1>7 DEF CourseInv
<1>9. QED
  BY <1>2, <1>8

LEMMA EndsKept ==
  ASSUME DInv, Steady
  PROVE  PackageInv' /\ BillsInv'
<1>1. /\ ShapeInv /\ CourseInv /\ SameCourse /\ JobsKept /\ PackageKept /\ PackageInv
      /\ RowsKept /\ TaskEnds /\ DocumentEnds /\ BillsInv
  BY DEF DInv, Steady
<1>2. NextStep(doc)' = NextStep(doc) /\ (Hopeless => Hopeless') /\ doc'.candidate = doc.candidate
  BY <1>1, CourseKept DEF SameCourse
<1>3. NoPackage \notin Package
  BY DeliveryAssumption DEF Package
<1>4. PackageInv'
  BY <1>1, <1>2, <1>3 DEF PackageInv, PackageKept
<1>5. package # NoPackage => package' = package
  BY <1>1 DEF PackageKept
<1>6. BillsInv'
  BY <1>1, <1>2, <1>5 DEF BillsInv, RowsKept, TaskEnds, DocumentEnds, Final
<1>7. QED
  BY <1>4, <1>6

LEMMA LocalsKept ==
  ASSUME DInv, Steady, run' \in [Workers -> Run],
         \A v \in Workers : run'[v] = run[v] \/ Fits(run[v])'
  PROVE  LocalsInv'
<1>1. ASSUME NEW v \in Workers PROVE Fits(run[v])'
  BY FitsKept
<1>2. QED
  BY <1>1 DEF LocalsInv

LEMMA MarkersKept ==
  ASSUME DInv, Unposted,
         \A v \in Workers : MayPost(run'[v]) => MayPost(run[v]) /\ run'[v].n = run[v].n
  PROVE  MarkerInv'
BY DEF DInv, MarkerInv, Unposted

LEMMA LeaseKept ==
  ASSUME DInv, Steady, doc'.owner \in {doc.owner, NoWorker}, \A v \in Workers : Moves(v)
  PROVE  LeaseInv'
<1> SUFFICES ASSUME NEW v \in Workers, doc'.owner = v, Works(run'[v])
             PROVE  /\ Rests(run'[v]) => Plan(run'[v]) = NextStep(doc)' /\ run'[v].n = Target(doc)'
                    /\ ~Rests(run'[v]) => run'[v].n = 0
                    /\ \A w \in Workers \ {v} : run'[w].n <= run'[v].claimed
                    /\ \A m \in 1 .. Len(doc'.attempts) :
                         m > run'[v].claimed /\ m # run'[v].n =>
                           doc'.attempts[m].status \notin Unresolved
  BY DEF LeaseInv
<1>1. /\ ShapeInv /\ CourseInv /\ LocalsInv /\ LeaseInv /\ SameCourse /\ JobsKept
  BY DEF DInv, Steady
<1>2. NextStep(doc)' = NextStep(doc) /\ Target(doc)' = Target(doc)
  BY <1>1, CourseKept
<1>3. doc.owner = v
  BY DeliveryAssumption
<1>4. /\ Works(run[v]) /\ run'[v].claimed = run[v].claimed /\ run[v].n \in {0, run'[v].n}
      /\ Rests(run'[v]) => Plan(run'[v]) = NextStep(doc) /\ run'[v].n = Target(doc)
      /\ ~Rests(run'[v]) => run'[v].n = 0
  <2>1. CASE run'[v] = run[v]
    BY <1>1, <1>3, <2>1 DEF LeaseInv
  <2>2. CASE run'[v] # run[v]
    BY <1>3, <2>2 DEF Moves, Continues
  <2>3. QED
    BY <2>1, <2>2
<1>5. /\ \A w \in Workers \ {v} : run[w].n <= run[v].claimed
      /\ \A m \in 1 .. Len(doc.attempts) :
           m > run[v].claimed /\ m # run[v].n => doc.attempts[m].status \notin Unresolved
  BY <1>1, <1>3, <1>4 DEF LeaseInv
<1>6. run[v].claimed \in Nat
  BY <1>1, DeliveryAssumption DEF LocalsInv, Run
<1>7. ASSUME NEW w \in Workers \ {v} PROVE run'[w].n <= run'[v].claimed
  <2>1. run'[w].n \in {0, run[w].n}
    BY <1>3 DEF Moves
  <2>2. QED
    BY <1>4, <1>5, <1>6, <2>1
<1>8. ASSUME NEW m \in 1 .. Len(doc'.attempts), m > run'[v].claimed, m # run'[v].n
      PROVE  doc'.attempts[m].status \notin Unresolved
  <2>1. m \in 1 .. Len(doc.attempts) /\ m # 0
    BY <1>1, AttemptIsSequence DEF SameCourse
  <2>2. doc.attempts[m].status \notin Unresolved
    BY <1>4, <1>5, <1>8, <2>1
  <2>3. QED
    BY <1>1, <2>1, <2>2 DEF SameCourse
<1>9. QED
  BY <1>2, <1>4, <1>7, <1>8

LEMMA SteadyStep ==
  ASSUME DInv, Steady, run' \in [Workers -> Run], doc'.owner \in {doc.owner, NoWorker},
         Unposted, \A v \in Workers : Moves(v)
  PROVE  DInv'
<1>1. \A v \in Workers : MayPost(run'[v]) => MayPost(run[v]) /\ run'[v].n = run[v].n
  BY DEF Moves
<1>2. LocalsInv'
  <2>1. \A v \in Workers : run'[v] = run[v] \/ Fits(run[v])'
    BY DEF Moves
  <2>2. QED
    BY <2>1, LocalsKept
<1>3. LeaseInv' /\ MarkerInv'
  BY <1>1, LeaseKept, MarkersKept
<1>4. ShapeInv' /\ CourseInv' /\ PackageInv' /\ BillsInv'
  BY CourseInvKept, EndsKept
<1>5. TypeOK' /\ RowsLinked' /\ RestInv'
  BY DEF Steady, RowsKept
<1>6. QED
  BY <1>2, <1>3, <1>4, <1>5 DEF DInv

-----------------------------------------------------------------------------
\* Steps of the ledger keep the end of the task.
LEMMA LedgerKept ==
  ASSUME TypeOK, RowsLinked, [Next]_vars
  PROVE  /\ TypeOK' /\ RowsLinked'
         /\ tasks[Key].status \in Final => tasks'[Key] = tasks[Key]
<1>1. TypeOK' /\ RowsLinked'
  BY LinkedStep
<1>2. LeavesBills
  BY BillsLeft
<1>3. QED
  BY <1>1, <1>2, KeyIsRow DEF LeavesBills

\* Steps that change locals only, and the ledger by one of its own steps.
Quiet == /\ [Next]_vars /\ UNCHANGED <<doc, supplier, files>>
         /\ RestInv' /\ TaskEnds

LEMMA SameDocument ==
  ASSUME ShapeInv, UNCHANGED doc
  PROVE  SameCourse
BY DEF SameCourse, ShapeInv

LEMMA SameSupplier ==
  ASSUME ShapeInv, CourseInv, UNCHANGED <<job, posts, file>>
  PROVE  JobsKept /\ FilesKept
BY DEF JobsKept, FilesKept, ShapeInv, CourseInv

LEMMA QuietIsSteady ==
  ASSUME DInv, Quiet
  PROVE  Steady /\ doc'.owner \in {doc.owner, NoWorker} /\ Unposted
<1>1. SameCourse /\ JobsKept /\ FilesKept
  BY SameDocument, SameSupplier DEF DInv, Quiet, supplier, files
<1>2. PackageKept /\ TaskEnds
  BY DEF Quiet, files, PackageKept
<1>3. RowsKept
  BY LedgerKept DEF DInv, Quiet, RowsKept
<1>4. DocumentEnds
  BY DEF Quiet, DocumentEnds
<1>5. QED
  BY <1>1, <1>2, <1>3, <1>4 DEF Quiet, Steady, Unposted, supplier

\* Locals of one execution change.
LEMMA OneRuns ==
  ASSUME DInv, NEW w \in Workers, NEW r \in Run, run' = [run EXCEPT ![w] = r]
  PROVE  /\ run' \in [Workers -> Run] /\ run'[w] = r
         /\ \A v \in Workers \ {w} : run'[v] = run[v]
BY DEF DInv, LocalsInv

LEMMA QuietStep ==
  ASSUME DInv, Quiet, NEW w \in Workers, NEW r \in Run, run' = [run EXCEPT ![w] = r], Moves(w)
  PROVE  DInv'
<1>1. run' \in [Workers -> Run] /\ \A v \in Workers : Moves(v)
  BY OneRuns DEF Moves
<1>2. QED
  BY <1>1, QuietIsSteady, SteadyStep

\* An execution that is past the lease, or gives up, may do so at any time.
Calm == {"idle", "reconcile", "doubt", "report", "clear"}
LEMMA CalmMoves ==
  ASSUME DInv, NEW w \in Workers, Len(doc'.attempts) = Len(doc.attempts), run'[w] \in Run,
         run'[w].at \in Calm, run'[w].n \in {0, run[w].n}, run'[w].claimed \in {0, run[w].claimed}
  PROVE  Moves(w)
<1>1. PICK r : r = run'[w]
  OBVIOUS
<1>2. Len(doc.attempts) \in Nat /\ Fits(run[w])
  BY AttemptIsSequence DEF DInv, LocalsInv
<1>3. r.claimed <= Len(doc'.attempts) /\ r.n <= Len(doc'.attempts)
  BY <1>1, <1>2 DEF Fits
<1>4. ~Works(r) /\ ~MayPost(r) /\ r.at \notin AtStage \cup Preparing
  BY <1>1 DEF Calm, Works, Rests, MayPost, Preparing, AtStage, Plans, BeforePost
<1>5. Fits(r)'
  BY <1>1, <1>3, <1>4 DEF Fits, Calm
<1>6. Fits(run[w])'
  BY <1>1, <1>5
<1>7. QED
  BY <1>1, <1>4, <1>6 DEF Moves

\* One that goes on where it stands may do so too.
LEMMA StandsAndMoves ==
  ASSUME DInv, NEW w \in Workers, doc'.owner \in {doc.owner, NoWorker}, Fits(run[w])',
         run'[w].claimed = run[w].claimed, run'[w].n = run[w].n,
         MayPost(run'[w]) => MayPost(run[w]),
         Works(run'[w]) => /\ Works(run[w]) /\ (Rests(run'[w]) <=> Rests(run[w]))
                           /\ Rests(run[w]) => Plan(run'[w]) = Plan(run[w])
  PROVE  Moves(w)
<1>1. run[w].n \in Nat /\ LeaseInv
  BY DeliveryAssumption DEF DInv, LocalsInv, Run, Sequences
<1>2. ASSUME doc'.owner = w, Works(run'[w])
      PROVE  Continues(w)
  <2>1. doc.owner = w
    BY <1>2, DeliveryAssumption
  <2>2. /\ Rests(run[w]) => Plan(run[w]) = NextStep(doc) /\ run[w].n = Target(doc)
        /\ ~Rests(run[w]) => run[w].n = 0
    BY <1>1, <1>2, <2>1 DEF LeaseInv
  <2>3. QED
    BY <1>2, <2>1, <2>2 DEF Continues
<1>3. QED
  BY <1>2 DEF Moves

LEMMA QuietMove ==
  ASSUME DInv, Quiet, NEW w \in Workers, NEW r \in Run, run' = [run EXCEPT ![w] = r],
         r.claimed = run[w].claimed, r.n = run[w].n, Fits(r)',
         MayPost(r) => MayPost(run[w]),
         Works(r) => /\ Works(run[w]) /\ (Rests(r) <=> Rests(run[w]))
                     /\ Rests(run[w]) => Plan(r) = Plan(run[w])
  PROVE  DInv'
<1>1. run'[w] = r
  BY OneRuns
<1>2. Fits(run[w])'
  BY <1>1
<1>3. Moves(w)
  BY <1>1, <1>2, QuietIsSteady, StandsAndMoves
<1>4. QED
  BY <1>3, QuietStep

LEMMA QuietCalm ==
  ASSUME DInv, Quiet, NEW w \in Workers, NEW r \in Run, run' = [run EXCEPT ![w] = r],
         r.at \in Calm, r.n \in {0, run[w].n}, r.claimed \in {0, run[w].claimed}
  PROVE  DInv'
<1>1. run'[w] = r /\ Len(doc'.attempts) = Len(doc.attempts)
  BY OneRuns DEF Quiet
<1>2. Moves(w)
  BY <1>1, CalmMoves
<1>3. QED
  BY <1>2, QuietStep

\* The locals of an execution, before and after it fails.
LEMMA OwnLocals ==
  ASSUME DInv, NEW w \in Workers
  PROVE  /\ run[w] \in Run /\ Fits(run[w]) /\ run[w].n \in Nat /\ run[w].claimed \in Nat
         /\ Failed(run[w]) \in Run /\ Idle \in Run
         /\ Failed(run[w]).at \in Calm /\ Failed(run[w]).n = 0 /\ Failed(run[w]).claimed = 0
         /\ Idle.at \in Calm /\ Idle.n = 0 /\ Idle.claimed = 0
<1>1. run[w] \in Run /\ Fits(run[w])
  BY DEF DInv, LocalsInv
<1>2. Idle \in Run /\ Idle.at \in Calm /\ Idle.n = 0 /\ Idle.claimed = 0
  BY DeliveryAssumption DEF Idle, Run, Steps, Calm, Open, Final
<1>3. /\ Failed(run[w]) \in Run /\ Failed(run[w]).at \in Calm
      /\ Failed(run[w]).n = 0 /\ Failed(run[w]).claimed = 0
  <2>1. ASSUME NEW a \in {"doubt", "clear"}
        PROVE  /\ [Idle EXCEPT !.at = a] \in Run /\ [Idle EXCEPT !.at = a].at \in Calm
               /\ [Idle EXCEPT !.at = a].n = 0 /\ [Idle EXCEPT !.at = a].claimed = 0
    BY <1>2 DEF Run, Steps, Calm
  <2>2. Failed(run[w]) \in {[Idle EXCEPT !.at = a] : a \in {"doubt", "clear"}}
    BY DEF Failed
  <2>3. QED
    BY <2>1, <2>2
<1>4. QED
  BY <1>1, <1>2, <1>3, DeliveryAssumption DEF Run, Sequences

\* Locals that go on to another step.
LEMMA AtAnotherStep ==
  ASSUME NEW r \in Run, NEW a \in Steps, NEW q, q = [r EXCEPT !.at = a]
  PROVE  /\ q \in Run /\ q.at = a /\ q.n = r.n /\ q.claimed = r.claimed /\ q.next = r.next
         /\ q.status = r.status /\ q.bill = r.bill /\ q.digest = r.digest
BY DEF Run

LEMMA QuietFail ==
  ASSUME DInv, Quiet, NEW w \in Workers, Fails(w)
  PROVE  DInv'
BY OwnLocals, QuietCalm DEF Fails

-----------------------------------------------------------------------------
\* Steps that change nothing but locals, or the ledger with them.
LEMMA QuietBy ==
  ASSUME DInv, [Next]_vars,
         UNCHANGED <<item, doc, expired, source, supplier, files, reviewed>>,
         faults' = faults \/ Disturbs,
         tasks'[Key].status \in Final => tasks[Key].status \in Final
  PROVE  Quiet
<1>1. RestInv'
  BY DeliveryAssumption DEF DInv, RestInv, Disturbs
<1>2. tasks[Key].status \in Final => tasks'[Key] = tasks[Key]
  BY LedgerKept DEF DInv
<1>3. TaskEnds
  BY <1>2, DInv DEF TaskEnds, Final, DInv, BillsInv
<1>4. QED
  BY <1>1, <1>3 DEF Quiet

LEMMA QuietThought ==
  ASSUME DInv, UNCHANGED <<vars, item, doc, expired, source, supplier, files, others>>
  PROVE  Quiet
<1>1. [Next]_vars /\ tasks' = tasks /\ faults' = faults /\ reviewed' = reviewed
  BY DEF vars, others
<1>2. QED
  BY <1>1, QuietBy

LEMMA UpdateCases ==
  ASSUME DInv, NEW w \in Workers, NEW allowed \in BOOLEAN, NEW document, NEW locals,
         Update(w, allowed, document, locals)
  PROVE  \/ DInv'
         \/ /\ allowed /\ doc' = document /\ run' = [run EXCEPT ![w] = locals]
            /\ UNCHANGED <<vars, item, expired, source, supplier, files, others>>
<1>1. CASE allowed
  BY <1>1 DEF Update
<1>2. CASE ~allowed
  <2>1. Fails(w) /\ UNCHANGED <<vars, item, doc, expired, source, supplier, files, others>>
    BY <1>2 DEF Update
  <2>2. QED
    BY <2>1, QuietThought, QuietFail
<1>3. QED
  BY <1>1, <1>2

\* An execution dies, or one of its statements or calls fails.
LEMMA ThrowStep ==
  ASSUME DInv, NEW w \in Workers, Throw(w) \/ Crash(w)
  PROVE  DInv'
<1>1. Quiet
  <2>1. UNCHANGED <<vars, item, doc, expired, source, supplier, files, reviewed>> /\ Disturbs
    BY DEF Throw, Crash
  <2>2. [Next]_vars /\ tasks' = tasks
    BY <2>1 DEF vars
  <2>3. QED
    BY <2>1, <2>2, QuietBy
<1>2. run[w] \in Run /\ Failed(run[w]) \in Run /\ Idle \in Run
  BY OwnLocals
<1>3. PICK r : r = run[w]
  OBVIOUS
<1>4. /\ [r EXCEPT !.at = "report"] \in Run /\ [r EXCEPT !.at = "clear"] \in Run
  BY <1>2, <1>3 DEF Run, Steps
<1>5. PICK q \in Run : /\ run' = [run EXCEPT ![w] = q]
                       /\ \/ q = Failed(r) \/ q = Idle
                          \/ q = [r EXCEPT !.at = "report"] \/ q = [r EXCEPT !.at = "clear"]
  BY <1>2, <1>3, <1>4 DEF Throw, Crash, Ends
<1>6. q.at \in Calm /\ q.n \in {0, r.n} /\ q.claimed \in {0, r.claimed}
  BY <1>2, <1>3, <1>5, OwnLocals DEF Calm, Run
<1>7. QED
  BY <1>1, <1>3, <1>5, <1>6, QuietCalm

LEMMA CheckStep ==
  ASSUME DInv, NEW w \in Workers, Check(w)
  PROVE  DInv'
<1>1. Quiet
  BY QuietThought DEF Check
<1>2. PICK r : r = run[w]
  OBVIOUS
<1>3. r \in Run /\ Fits(r) /\ r.at = "check"
  BY <1>2, OwnLocals DEF Check, At
<1>4. r.n \in Sequences
  BY <1>3, AttemptIsSequence DEF DInv, Fits, AtStage, Run
<1>5. file[r.n] \in {"none", "proof", "result"}
  BY <1>4 DEF DInv, ShapeInv
<1>6. PICK q : /\ run' = [run EXCEPT ![w] = q]
               /\ \/ q = [r EXCEPT !.at = "record"] /\ file[r.n] = "result"
                  \/ q = [r EXCEPT !.at = "permit"]
                  \/ q = [r EXCEPT !.at = "save", !.definite = TRUE] /\ file[r.n] = "proof"
                  \/ q = Failed(r)
  BY <1>2, <1>5 DEF Check
<1>7. CASE q = Failed(r)
  BY <1>1, <1>2, <1>6, <1>7, QuietFail DEF Fails
<1>8. CASE q # Failed(r)
  <2>1. /\ q \in Run /\ q.claimed = r.claimed /\ q.n = r.n
        /\ \/ q.at = "record" /\ file[r.n] = "result"
           \/ q.at = "permit"
           \/ q.at = "save" /\ file[r.n] = "proof"
    <3>1. "record" \in Steps /\ "permit" \in Steps /\ "save" \in Steps
      BY DEF Steps
    <3>2. CASE q = [r EXCEPT !.at = "record"] /\ file[r.n] = "result"
      BY <1>3, <3>1, <3>2, AtAnotherStep
    <3>3. CASE q = [r EXCEPT !.at = "permit"]
      BY <1>3, <3>1, <3>3, AtAnotherStep
    <3>4. CASE q = [r EXCEPT !.at = "save", !.definite = TRUE] /\ file[r.n] = "proof"
      <4>1. PICK b \in BOOLEAN : q = [r EXCEPT !.at = "save", !.definite = b]
        BY <3>4
      <4>2. QED
        BY <1>3, <3>4, <4>1, ZenonT(60) DEF Run, Steps
    <3>5. QED
      BY <1>6, <1>8, <3>2, <3>3, <3>4
  <2>2. /\ q.at = "record" => job[q.n] \in Usable
        /\ q.at = "save" => job[q.n] \in Answered
    BY <1>4, <2>1 DEF DInv, CourseInv
  <2>3. Fits(q)'
    BY <1>1, <1>3, <2>1, <2>2 DEF Fits, AtStage, Preparing, Quiet, supplier, files
  <2>4. QED
    BY <1>1, <1>2, <1>3, <1>6, <2>1, <2>3, QuietMove
       DEF MayPost, Works, Rests, Plan, AtStage, Preparing, Plans, BeforePost
<1>9. QED
  BY <1>7, <1>8

LEMMA GivesUpStep ==
  ASSUME DInv, NEW w \in Workers, ReserveIsRefused(w) \/ NoAttempt(w) \/ Pending(w)
  PROVE  DInv'
<1>1. Fails(w) /\ UNCHANGED <<vars, item, doc, expired, source, supplier, files, others>>
  BY DEF ReserveIsRefused, NoAttempt, Pending
<1>2. QED
  BY <1>1, QuietThought, QuietFail

\* A marker that may be posted is one of the execution's own.
LEMMA PermitStep ==
  ASSUME DInv, NEW w \in Workers, Permit(w)
  PROVE  DInv'
<1>1. PICK r : r = run[w]
  OBVIOUS
<1>2. r \in Run /\ Fits(r) /\ r.at = "permit"
  BY <1>1, OwnLocals DEF Permit, At
<1>3. PICK q : /\ q = IF r.receipt THEN [r EXCEPT !.at = "query"]
                      ELSE IF IsFirstCall(w) THEN [r EXCEPT !.at = "post"] ELSE Failed(r)
               /\ Update(w, MayGoOn(w) /\ doc.attempts[r.n].status \in Unresolved, doc, q)
  BY <1>1 DEF Permit
<1>4. \/ DInv'
      \/ /\ run' = [run EXCEPT ![w] = q]
         /\ UNCHANGED <<vars, item, doc, expired, source, supplier, files, others>>
  BY <1>3, UpdateCases
<1>5. CASE DInv'
  BY <1>5
<1>6. CASE /\ run' = [run EXCEPT ![w] = q]
           /\ UNCHANGED <<vars, item, doc, expired, source, supplier, files, others>>
  <2>1. Quiet
    BY <1>6, QuietThought
  <2>2. CASE q = Failed(r)
    BY <1>1, <1>6, <2>1, <2>2, QuietFail DEF Fails
  <2>3. ASSUME NEW step \in {"query", "post"}, q = [r EXCEPT !.at = step],
               step = "post" => r.n > r.claimed
        PROVE  DInv'
    <3>1. q \in Run /\ q.at = step /\ q.claimed = r.claimed /\ q.n = r.n
      BY <1>2, <2>3, AtAnotherStep DEF Steps
    <3>2. Fits(q)'
      BY <1>2, <2>1, <2>3, <3>1 DEF Fits, AtStage, Preparing, Quiet
    <3>3. QED
      BY <1>1, <1>2, <1>6, <2>1, <2>3, <3>1, <3>2, QuietMove
         DEF MayPost, Works, Rests, Plan, AtStage, Preparing, Plans, BeforePost
  <2>4. QED
    BY <1>1, <1>3, <2>2, <2>3 DEF IsFirstCall
<1>7. QED
  BY <1>4, <1>5, <1>6

\* The lease shows where the document stands.
LEMMA OwnerKnows ==
  ASSUME DInv, NEW w \in Workers, Owns(w), Rests(run[w])
  PROVE  Plan(run[w]) = NextStep(doc) /\ run[w].n = Target(doc)
BY DEF DInv, LeaseInv, Owns, Works

\* Giving up means that no attempt is left.
LEMMA GiveUpIsHopeless ==
  ASSUME ShapeInv, CourseInv, NextStep(doc) = "giveup"
  PROVE  Hopeless
<1>1. doc \in Document /\ doc.candidate \in 1 .. MaxCandidates /\ MaxCandidates \in Nat
  BY DeliveryAssumption DEF ShapeInv, Document
<1>2. PlanFacts(doc)
  BY <1>1, PlanMeans
<1>3. CASE /\ IsDone(doc, <<"review", doc.candidate>>) /\ ~IsAccepted(doc)
           /\ ~(doc.candidate < MaxCandidates)
  <2>1. doc.candidate = MaxCandidates
    BY <1>1, <1>3
  <2>2. PICK n : n = LastIn(Of(doc, <<"review", MaxCandidates>>))
    OBVIOUS
  <2>3. n \in Of(doc, <<"review", MaxCandidates>>) /\ n \in 1 .. Len(doc.attempts)
    BY <1>1, <1>3, <2>1, <2>2, OfShape DEF IsDone
  <2>4. doc.attempts[n].status = "succeeded" /\ job[n] # "good"
    BY <1>3, <2>1, <2>2 DEF IsDone, IsAccepted
  <2>5. job[n] = "rejected"
    BY <2>3, <2>4 DEF CourseInv, Usable
  <2>6. QED
    BY <2>3, <2>5 DEF Hopeless
<1>4. ASSUME NEW stage \in Stages, Of(doc, stage) # {},
             doc.attempts[LastIn(Of(doc, stage))].status = "failed",
             ~(Cardinality(Of(doc, stage)) < MaxStageAttempts)
      PROVE  Hopeless
  <2>1. PICK last : last = LastIn(Of(doc, stage))
    OBVIOUS
  <2>2. /\ last \in 1 .. Len(doc.attempts) /\ last \in Of(doc, stage)
        /\ \A n \in Of(doc, stage) : n <= last
        /\ Cardinality(Of(doc, stage)) \in Nat /\ Of(doc, stage) \in SUBSET (1 .. Len(doc.attempts))
        /\ Len(doc.attempts) \in Nat
    BY <1>1, <1>4, <2>1, OfShape
  <2>3. Cardinality(Of(doc, stage)) = MaxStageAttempts
    BY <1>4, <2>2, DeliveryAssumption DEF CourseInv
  <2>4. ASSUME NEW n \in Of(doc, stage) PROVE IsDead(n)
    <3>1. CASE n = last
      BY <1>4, <2>1, <2>2, <3>1 DEF CourseInv
    <3>2. CASE n < last
      BY <2>2, <3>2 DEF CourseInv, Of
    <3>3. QED
      BY <2>2, <3>1, <3>2
  <2>5. QED
    BY <2>3, <2>4 DEF Hopeless
<1>5. QED
  BY <1>2, <1>3, <1>4 DEF PlanFacts

LEMMA ReassertStep ==
  ASSUME DInv, NEW w \in Workers, Reassert(w, "final", "pack") \/ Reassert(w, "giveup", "refund")
  PROVE  DInv'
<1>1. PICK r : r = run[w]
  OBVIOUS
<1>2. r \in Run /\ Fits(r)
  BY <1>1, OwnLocals
<1>3. ASSUME NEW step \in {"final", "giveup"}, NEW next \in {"pack", "refund"},
             step = "final" <=> next = "pack", Reassert(w, step, next)
      PROVE  DInv'
  <2>1. PICK q : q = [r EXCEPT !.at = next] /\ Update(w, MayGoOn(w), doc, q)
    BY <1>1, <1>3 DEF Reassert
  <2>2. \/ DInv'
        \/ /\ Owns(w) /\ run' = [run EXCEPT ![w] = q]
           /\ UNCHANGED <<vars, item, doc, expired, source, supplier, files, others>>
    BY <2>1, UpdateCases DEF MayGoOn
  <2>3. CASE DInv'
    BY <2>3
  <2>4. CASE /\ Owns(w) /\ run' = [run EXCEPT ![w] = q]
             /\ UNCHANGED <<vars, item, doc, expired, source, supplier, files, others>>
    <3>1. Quiet /\ r.at = step
      BY <1>1, <1>3, <2>4, QuietThought DEF Reassert, At
    <3>2. q \in Run /\ q.at = next /\ q.claimed = r.claimed /\ q.n = r.n
      BY <1>2, <2>1, AtAnotherStep DEF Steps
    <3>3. NextStep(doc) = step
      BY <1>1, <2>4, <3>1, OwnerKnows DEF Rests, Plan, Plans, Preparing, AtStage
    <3>4. next = "refund" => Hopeless
      BY <1>3, <3>3, GiveUpIsHopeless DEF DInv
    <3>5. NextStep(doc)' = NextStep(doc) /\ (Hopeless => Hopeless')
      BY <3>1, QuietIsSteady, CourseKept DEF DInv, Steady
    <3>6. Fits(q)'
      BY <1>2, <1>3, <3>1, <3>2, <3>3, <3>4, <3>5 DEF Fits, AtStage, Preparing, Quiet
    <3>7. QED
      BY <1>1, <1>2, <2>4, <3>1, <3>2, <3>6, QuietMove
         DEF MayPost, Works, Rests, AtStage, Preparing, Plans, BeforePost
  <2>5. QED
    BY <2>2, <2>3, <2>4
<1>4. QED
  BY <1>3

LEMMA SettledStep ==
  ASSUME DInv, NEW w \in Workers, Settled(w)
  PROVE  DInv'
<1>1. PICK r : r = run[w]
  OBVIOUS
<1>2. r \in Run /\ Fits(r) /\ r.at = "settle"
  BY <1>1, OwnLocals DEF Settled, At
<1>3. PICK q : q = [r EXCEPT !.at = "bill"] /\ Update(w, IsVerified /\ MayGoOn(w), doc, q)
  BY <1>1 DEF Settled
<1>4. \/ DInv'
      \/ /\ run' = [run EXCEPT ![w] = q]
         /\ UNCHANGED <<vars, item, doc, expired, source, supplier, files, others>>
  BY <1>3, UpdateCases
<1>5. CASE DInv'
  BY <1>5
<1>6. CASE /\ run' = [run EXCEPT ![w] = q]
           /\ UNCHANGED <<vars, item, doc, expired, source, supplier, files, others>>
  <2>1. Quiet
    BY <1>6, QuietThought
  <2>2. /\ q \in Run /\ q.at = "bill" /\ q.claimed = r.claimed /\ q.n = r.n
        /\ q.digest = r.digest
    BY <1>2, <1>3, AtAnotherStep DEF Steps
  <2>3. Fits(q)'
    BY <1>2, <2>1, <2>2 DEF Fits, AtStage, Preparing, Quiet, files
  <2>4. QED
    BY <1>1, <1>6, <2>1, <2>2, <2>3, QuietMove
       DEF MayPost, Works, Rests, AtStage, Preparing, Plans, BeforePost
<1>7. QED
  BY <1>4, <1>5, <1>6

\* A packed image is settled without further calls of a supplier; else the plan of
\* the claim is followed.
LEMMA RecoverStep ==
  ASSUME DInv, NEW w \in Workers, Recover(w)
  PROVE  DInv'
<1>1. Quiet
  BY QuietThought DEF Recover
<1>2. PICK r : r = run[w]
  OBVIOUS
<1>3. r \in Run /\ Fits(r) /\ r.at = "recover"
  BY <1>2, OwnLocals DEF Recover, At
<1>4. CASE package # NoPackage
  <2>1. package.digest \in Digests
    BY <1>4 DEF DInv, PackageInv, Package
  <2>2. PICK q : q = [r EXCEPT !.at = "settle", !.digest = package.digest, !.n = 0,
                               !.receipt = FALSE]
                 /\ run' = [run EXCEPT ![w] = q]
    BY <1>2, <1>4 DEF Recover
  <2>3. /\ q \in Run /\ q.at = "settle" /\ q.n = 0 /\ q.claimed = r.claimed
        /\ q.digest = package.digest
    <3>1. PICK b \in BOOLEAN, d \in Digests :
             q = [r EXCEPT !.at = "settle", !.digest = d, !.n = 0, !.receipt = b]
             /\ d = package.digest
      BY <2>1, <2>2
    <3>2. QED
      BY <1>3, <3>1, ZenonT(60) DEF Run, Steps
  <2>4. Fits(q)'
    BY <1>1, <1>3, <1>4, <2>3, AttemptIsSequence
       DEF DInv, Fits, AtStage, Preparing, Quiet, files
  <2>5. run'[w] = q
    BY <2>2, <2>3, OneRuns
  <2>6. Fits(run[w])'
    BY <2>4, <2>5
  <2>7. Moves(w)
    BY <2>3, <2>5, <2>6
       DEF Moves, MayPost, Works, Rests, AtStage, Preparing, Plans, BeforePost
  <2>8. QED
    BY <1>1, <2>2, <2>3, <2>7, QuietStep
<1>5. CASE package = NoPackage
  <2>1. r.next \in Plans /\ r.next \in Steps
    BY <1>3 DEF Fits, Preparing, Plans, Steps
  <2>2. PICK q : q = [r EXCEPT !.at = r.next] /\ run' = [run EXCEPT ![w] = q]
    BY <1>2, <1>5 DEF Recover
  <2>3. q \in Run /\ q.at = r.next /\ q.n = r.n /\ q.claimed = r.claimed
    BY <1>3, <2>1, <2>2, AtAnotherStep
  <2>4. Fits(q)'
    BY <1>1, <1>3, <2>1, <2>3 DEF Fits, AtStage, Preparing, Plans, Quiet
  <2>5. ~MayPost(q)
    BY <1>3, <2>1, <2>3 DEF Fits, MayPost, BeforePost, Plans, Preparing, Run, Sequences
  <2>6. Rests(q) /\ Rests(r) /\ Plan(q) = Plan(r)
    BY <1>3, <2>1, <2>3 DEF Rests, Plan, AtStage, Preparing, Plans
  <2>7. QED
    BY <1>1, <1>2, <2>2, <2>3, <2>4, <2>5, <2>6, QuietMove DEF Works
<1>6. QED
  BY <1>4, <1>5

\* Calls of the ledger that do not end the task.
LEMMA OpenCalls ==
  ASSUME TypeOK,
         \/ UNCHANGED vars
         \/ \E request \in Request : Reserve(Key, request)
         \/ \E provider \in Providers : StartAttempt(Key, 1, provider)
         \/ \E receipt \in Receipts : RecordReceipt(Key, 1, receipt)
  PROVE  /\ [Next]_vars
         /\ tasks'[Key].status \in Final => tasks[Key].status \in Final
<1>1. CASE UNCHANGED vars
  BY <1>1 DEF vars
<1>2. ASSUME NEW request \in Request, Reserve(Key, request)
      PROVE  [Next]_vars /\ tasks'[Key].status = "reserved"
  <2>1. [Next]_vars
    BY <1>2, KeyIsRow DEF Next, Member
  <2>2. tasks'[Key].status = "reserved"
    BY <1>2, KeyIsRow DEF Reserve, TypeOK
  <2>3. QED
    BY <2>1, <2>2
<1>3. ASSUME NEW provider \in Providers, StartAttempt(Key, 1, provider)
      PROVE  [Next]_vars /\ tasks'[Key].status = "running"
  <2>1. [Next]_vars
    BY <1>3, KeyIsRow, DeliveryAssumption DEF Next, Member
  <2>2. tasks'[Key].status = "running"
    BY <1>3, KeyIsRow DEF StartAttempt, TypeOK, Task
  <2>3. QED
    BY <2>1, <2>2
<1>4. ASSUME NEW receipt \in Receipts, RecordReceipt(Key, 1, receipt)
      PROVE  [Next]_vars /\ tasks' = tasks
  <2>1. [Next]_vars
    BY <1>4, KeyIsRow, DeliveryAssumption DEF Next, Member
  <2>2. QED
    BY <1>4, <2>1 DEF RecordReceipt
<1>5. QED
  BY <1>1, <1>2, <1>3, <1>4 DEF Final

LEMMA FindAttemptStep ==
  ASSUME DInv, NEW w \in Workers, NEW provider \in Providers, FindAttempt(w, provider)
  PROVE  DInv'
<1>1. Quiet
  <2>1. UNCHANGED vars \/ StartAttempt(Key, 1, provider)
    BY DEF FindAttempt
  <2>2. UNCHANGED <<item, doc, expired, source, supplier, files, reviewed, faults>>
    BY DEF FindAttempt, others
  <2>3. QED
    BY <2>1, <2>2, OpenCalls, QuietBy DEF DInv
<1>2. PICK r : r = run[w]
  OBVIOUS
<1>3. r \in Run /\ Fits(r) /\ r.at = "start"
  BY <1>2, OwnLocals DEF FindAttempt, At
<1>4. PICK q : /\ run' = [run EXCEPT ![w] = q]
               /\ q = [r EXCEPT !.at = "receipt", !.financial = TRUE]
  BY <1>2 DEF FindAttempt
<1>5. q \in Run /\ q.at = "receipt" /\ q.n = r.n /\ q.claimed = r.claimed /\ q.next = r.next
  <2>1. PICK b \in BOOLEAN : q = [r EXCEPT !.at = "receipt", !.financial = b]
    BY <1>4
  <2>2. QED
    BY <1>3, <2>1 DEF Run, Steps
<1>6. Fits(q)'
  BY <1>1, <1>3, <1>5 DEF Fits, AtStage, Preparing, Quiet
<1>7. QED
  BY <1>1, <1>2, <1>3, <1>4, <1>5, <1>6, QuietMove
     DEF MayPost, Works, Rests, Plan, AtStage, Preparing, BeforePost

LEMMA KeepReceiptStep ==
  ASSUME DInv, NEW w \in Workers, NEW receipt \in Receipts, KeepReceipt(w, receipt)
  PROVE  DInv'
<1>1. Quiet
  <2>1. UNCHANGED vars \/ RecordReceipt(Key, 1, receipt)
    BY DEF KeepReceipt
  <2>2. UNCHANGED <<item, doc, expired, source, supplier, files, reviewed, faults>>
    BY DEF KeepReceipt, others
  <2>3. QED
    BY <2>1, <2>2, OpenCalls, QuietBy DEF DInv
<1>2. PICK r : r = run[w]
  OBVIOUS
<1>3. r \in Run /\ Fits(r) /\ r.at = "receipt"
  BY <1>2, OwnLocals DEF KeepReceipt, At
<1>4. Fails(w) \/ GoTo(w, "recover")
  BY DEF KeepReceipt
<1>5. CASE Fails(w)
  BY <1>1, <1>5, QuietFail
<1>6. CASE GoTo(w, "recover")
  <2>1. PICK q : run' = [run EXCEPT ![w] = q] /\ q = [r EXCEPT !.at = "recover"]
    BY <1>2, <1>6 DEF GoTo
  <2>2. q \in Run /\ q.at = "recover" /\ q.n = r.n /\ q.claimed = r.claimed /\ q.next = r.next
    BY <1>3, <2>1, AtAnotherStep DEF Steps
  <2>3. Fits(q)'
    BY <1>1, <1>3, <2>2 DEF Fits, AtStage, Preparing, Quiet
  <2>4. QED
    BY <1>1, <1>2, <1>3, <2>1, <2>2, <2>3, QuietMove
       DEF MayPost, Works, Rests, Plan, AtStage, Preparing, BeforePost
<1>7. QED
  BY <1>4, <1>5, <1>6

LEMMA ReserveTaskStep ==
  ASSUME DInv, NEW w \in Workers, NEW request \in Request, ReserveTask(w, request)
  PROVE  DInv'
<1>1. Quiet
  <2>1. UNCHANGED vars \/ Reserve(Key, request)
    BY DEF ReserveTask
  <2>2. UNCHANGED <<item, doc, expired, source, supplier, files, reviewed, faults>>
    BY DEF ReserveTask, others
  <2>3. QED
    BY <2>1, <2>2, OpenCalls, QuietBy DEF DInv
<1>2. PICK r : r = run[w]
  OBVIOUS
<1>3. r \in Run /\ Fits(r) /\ r.at = "reserve"
  BY <1>2, OwnLocals DEF ReserveTask, At
<1>4. PICK task : task = tasks'[Key]
  OBVIOUS
<1>5. task \in Task
  BY <1>1, <1>4, QuietIsSteady, KeyIsRow DEF Steady, RowsKept, TypeOK
<1>6. PICK q : /\ run' = [run EXCEPT ![w] = q]
               /\ q = [r EXCEPT !.at = "link", !.status = task.status, !.bill = task.result]
  BY <1>2, <1>4 DEF ReserveTask
<1>7. /\ q \in Run /\ q.at = "link" /\ q.n = r.n /\ q.claimed = r.claimed
      /\ q.status = task.status /\ q.bill = task.result
  BY <1>3, <1>5, <1>6 DEF Run, Steps, Task
<1>8. Fits(q)'
  BY <1>1, <1>3, <1>4, <1>7 DEF Fits, AtStage, Preparing, Quiet
<1>9. QED
  BY <1>1, <1>2, <1>3, <1>6, <1>7, <1>8, QuietMove
     DEF MayPost, Works, Rests, AtStage, Preparing, Plans, BeforePost

-----------------------------------------------------------------------------
\* What recordOutcome does to the task of the delivery.
LEMMA OutcomeSays ==
  ASSUME TypeOK, RowsLinked, NEW call \in OutcomeCall, RecordOutcome(Key, 1, call)
  PROVE  /\ [Next]_vars
         /\ tasks[Key].status \notin Final /\ tasks'[Key].status \in Final =>
              /\ tasks'[Key].status = call.outcome
              /\ call.outcome = "succeeded" => tasks'[Key].result = call.digest
         /\ tasks[Key].status \in Final =>
              /\ tasks' = tasks
              /\ call.outcome = "succeeded" =>
                   /\ attempts' # attempts
                   /\ ~attempts'[Key][1].conflict => tasks[Key].result = call.digest
<1>1. Key \in Keys /\ 1 \in AttemptKeys
  BY KeyIsRow, DeliveryAssumption
<1>2. [Next]_vars
  BY <1>1 DEF Next, Member
<1>3. /\ call.outcome \in Outcomes /\ call.count \in Nat /\ call.count # 0
  BY LimitAssumption DEF OutcomeCall
<1>4. ASSUME tasks[Key].status \notin Final, tasks'[Key].status \in Final
      PROVE  /\ tasks'[Key].status = call.outcome
             /\ call.outcome = "succeeded" => tasks'[Key].result = call.digest
  <2>1. CASE call.outcome # "unknown"
             /\ Settle(Key, IF call.outcome = "succeeded" THEN call.count ELSE 0, call.digest)
    <3>1. PICK count \in Nat : /\ count = IF call.outcome = "succeeded" THEN call.count ELSE 0
                               /\ Settle(Key, count, call.digest)
      BY <1>3, <2>1
    <3>2. /\ tasks'[Key].status = IF count = 0 THEN "failed" ELSE "succeeded"
          /\ tasks'[Key].result = IF count = 0 THEN NoDigest ELSE call.digest
      BY <1>1, <3>1, SettleRow
    <3>3. QED
      BY <1>3, <2>1, <3>1, <3>2 DEF Outcomes
  <2>2. CASE \/ tasks' = [tasks EXCEPT ![Key].status = "unknown"]
             \/ tasks' = [tasks EXCEPT ![Key].status = "reserved"]
    <3>1. tasks'[Key].status \in {"unknown", "reserved"}
      BY <1>1, <2>2 DEF TypeOK, Task
    <3>2. QED
      BY <1>4, <3>1 DEF Final
  <2>3. QED
    BY <1>4, <2>1, <2>2 DEF RecordOutcome, IsClosed
<1>5. ASSUME tasks[Key].status \in Final
      PROVE  /\ tasks' = tasks
             /\ call.outcome = "succeeded" =>
                  /\ attempts' # attempts
                  /\ ~attempts'[Key][1].conflict => tasks[Key].result = call.digest
  <2>1. tasks' = tasks
    BY <1>5 DEF RecordOutcome, IsClosed
  <2>2. PICK old : old = attempts[Key][1]
    OBVIOUS
  <2>3. PICK task : task = tasks[Key]
    OBVIOUS
  <2>4. PICK new : new = Recorded(task, old, call)
    OBVIOUS
  <2>5. old \in Attempt /\ 1 \in DOMAIN attempts[Key] /\ Accepts(task, old, call)
    BY <1>1, <2>2, <2>3 DEF TypeOK, RecordOutcome
  <2>6. attempts'[Key][1] = new
    BY <1>1, <2>2, <2>3, <2>4, <2>5 DEF TypeOK, RecordOutcome
  <2>7. new.status = call.outcome /\ new.conflict = Conflicts(task, call)
    BY <2>4, <2>5 DEF Recorded, Attempt
  <2>8. ASSUME call.outcome = "succeeded"
        PROVE  /\ new # old
               /\ ~new.conflict => task.result = call.digest
    <3>1. old.status # "succeeded"
      BY <2>5 DEF Accepts, VerifiedRecovery
    <3>2. ~Conflicts(task, call) => task.result = call.digest
      BY <1>5, <2>3, <2>8 DEF Conflicts
    <3>3. QED
      BY <2>7, <2>8, <3>1, <3>2
  <2>9. QED
    BY <2>1, <2>2, <2>3, <2>6, <2>8
<1>6. QED
  BY <1>2, <1>4, <1>5

LEMMA CallsAreOutcomes ==
  /\ DoubtCall \in OutcomeCall
  /\ \A receipt \in Receipts : RefundCall(receipt) \in OutcomeCall
  /\ \A digest \in Digests, receipt \in Receipts : BillCall(digest, receipt) \in OutcomeCall
<1>1. 1 \in 1 .. MaxResults
  BY DeliveryAssumption, LimitAssumption
<1>2. DoubtCall \in OutcomeCall
  BY <1>1 DEF DoubtCall, OutcomeCall, Outcomes
<1>3. ASSUME NEW receipt \in Receipts PROVE RefundCall(receipt) \in OutcomeCall
  BY <1>1 DEF RefundCall, OutcomeCall, Outcomes
<1>4. ASSUME NEW digest \in Digests, NEW receipt \in Receipts
      PROVE  BillCall(digest, receipt) \in OutcomeCall
  BY <1>1, NullAssumption DEF BillCall, OutcomeCall, Outcomes
<1>5. QED
  BY <1>2, <1>3, <1>4

\* A doubt ends nothing.
LEMMA ReportStep ==
  ASSUME DInv, NEW w \in Workers, Report(w)
  PROVE  DInv'
<1>1. Quiet
  <2>1. \/ UNCHANGED vars
        \/ RecordOutcome(Key, 1, DoubtCall)
    BY DEF Report
  <2>2. [Next]_vars /\ (tasks'[Key].status \in Final => tasks[Key].status \in Final)
    <3>1. CASE UNCHANGED vars
      BY <3>1 DEF vars
    <3>2. CASE RecordOutcome(Key, 1, DoubtCall)
      <4>1. PICK call : call = DoubtCall /\ call \in OutcomeCall /\ call.outcome = "unknown"
        BY CallsAreOutcomes DEF DoubtCall
      <4>2. QED
        BY <3>2, <4>1, OutcomeSays DEF DInv, Final
    <3>3. QED
      BY <2>1, <3>1, <3>2
  <2>3. UNCHANGED <<item, doc, expired, source, supplier, files, reviewed, faults>>
    BY DEF Report, others
  <2>4. QED
    BY <2>2, <2>3, QuietBy
<1>2. PICK r : r = run[w]
  OBVIOUS
<1>3. PICK q : run' = [run EXCEPT ![w] = q] /\ q = [r EXCEPT !.at = "clear"]
  BY <1>2 DEF Report, GoTo
<1>4. q \in Run /\ q.at \in Calm /\ q.n = r.n /\ q.claimed = r.claimed
  BY <1>2, <1>3, OwnLocals, AtAnotherStep DEF Steps, Calm
<1>5. QED
  BY <1>1, <1>2, <1>3, <1>4, QuietCalm

\* The ledger's answer to a bill or a refund is what the task says.
LEMMA ReportsStep ==
  ASSUME DInv, NEW w \in Workers, NEW call \in OutcomeCall, NEW agreed \in {"close", "bury"},
         Reports(w, call, agreed),
         \/ /\ run[w].at = "bill" /\ agreed = "close" /\ call.outcome = "succeeded"
            /\ call.digest = run[w].digest
         \/ run[w].at = "refund" /\ agreed = "bury" /\ call.outcome = "failed"
  PROVE  DInv'
<1>1. PICK r : r = run[w]
  OBVIOUS
<1>2. r \in Run /\ Fits(r)
  BY <1>1, OwnLocals
<1>3. \/ RecordOutcome(Key, 1, call)
      \/ UNCHANGED vars
  BY DEF Reports
<1>4. [Next]_vars
  BY <1>3, OutcomeSays DEF DInv
<1>5. UNCHANGED <<item, doc, expired, source, supplier, files, reviewed, faults>>
  BY DEF Reports, others
<1>6. tasks[Key].status \notin Final /\ tasks'[Key].status \in Final =>
        /\ tasks'[Key].status = call.outcome
        /\ call.outcome = "succeeded" => tasks'[Key].result = call.digest
  BY <1>3, OutcomeSays DEF DInv, vars
<1>7. tasks[Key].status \in Final => tasks'[Key] = tasks[Key]
  BY <1>4, LedgerKept DEF DInv
<1>8. Quiet
  <2>1. RestInv'
    BY <1>5 DEF DInv, RestInv
  <2>2. TaskEnds
    BY <1>1, <1>2, <1>5, <1>6, <1>7 DEF TaskEnds, Final, Fits
  <2>3. QED
    BY <1>4, <1>5, <2>1, <2>2 DEF Quiet
<1>9. CASE Fails(w)
  BY <1>8, <1>9, QuietFail
<1>10. ASSUME NEW step \in {agreed, "reconcile"}, GoTo(w, step), step = agreed => IsAgreed(call),
              \/ Accepts(tasks[Key], attempts[Key][1], call)
              \/ call.outcome = "succeeded" => tasks[Key].result = call.digest
       PROVE  DInv'
  <2>1. PICK q : run' = [run EXCEPT ![w] = q] /\ q = [r EXCEPT !.at = step]
    BY <1>1, <1>10 DEF GoTo
  <2>2. /\ q \in Run /\ q.at = step /\ q.n = r.n /\ q.claimed = r.claimed
        /\ q.digest = r.digest
    BY <1>2, <2>1, AtAnotherStep DEF Steps
  <2>3. CASE step = "reconcile"
    BY <1>1, <1>8, <2>1, <2>2, <2>3, QuietCalm DEF Calm
  <2>4. CASE step = agreed
    <3>1. tasks'[Key].status = call.outcome
      BY <1>10, <2>4 DEF IsAgreed
    <3>2. call.outcome = "succeeded" => tasks'[Key].result = call.digest
      <4>1. CASE tasks[Key].status \notin Final
        BY <1>6, <3>1, <4>1 DEF Final
      <4>2. CASE tasks[Key].status \in Final
        <5>1. CASE RecordOutcome(Key, 1, call)
          BY <1>10, <2>4, <4>2, <5>1, OutcomeSays DEF IsAgreed, DInv
        <5>2. CASE ~Accepts(tasks[Key], attempts[Key][1], call)
          BY <1>7, <1>10, <4>2, <5>2
        <5>3. QED
          BY <5>1, <5>2 DEF Reports
      <4>3. QED
        BY <4>1, <4>2
    <3>3. Fits(q)'
      BY <1>1, <1>2, <1>5, <2>2, <2>4, <3>1, <3>2 DEF Fits, AtStage, Preparing, files
    <3>4. QED
      BY <1>1, <1>2, <1>8, <2>1, <2>2, <2>4, <3>3, QuietMove
         DEF MayPost, Works, Rests, AtStage, Preparing, Plans, BeforePost
  <2>5. QED
    BY <2>3, <2>4
<1>11. QED
  <2>1. \/ Fails(w)
        \/ GoTo(w, agreed) /\ IsAgreed(call)
             /\ \/ Accepts(tasks[Key], attempts[Key][1], call)
                \/ call.outcome = "succeeded" => tasks[Key].result = call.digest
        \/ GoTo(w, "reconcile")
             /\ \/ Accepts(tasks[Key], attempts[Key][1], call)
                \/ call.outcome = "succeeded" => tasks[Key].result = call.digest
    BY DEF Reports
  <2>2. "reconcile" # agreed
    OBVIOUS
  <2>3. QED
    BY <1>9, <1>10, <2>1, <2>2

LEMMA BillStep ==
  ASSUME DInv, NEW w \in Workers, NEW receipt \in Receipts,
         Bill(w, receipt) \/ Refund(w, receipt)
  PROVE  DInv'
<1>1. CASE Bill(w, receipt)
  <2>1. PICK d : d = run[w].digest
    OBVIOUS
  <2>2. d \in Digests
    BY <1>1, <2>1, OwnLocals DEF Bill, At, Fits, DInv, PackageInv, Package
  <2>3. PICK call : call = BillCall(d, receipt) /\ call \in OutcomeCall
    BY <2>2, CallsAreOutcomes
  <2>4. call.outcome = "succeeded" /\ call.digest = d
    BY <2>3 DEF BillCall
  <2>5. QED
    BY <1>1, <2>1, <2>3, <2>4, ReportsStep DEF Bill, At
<1>2. CASE Refund(w, receipt)
  <2>1. PICK call : call = RefundCall(receipt) /\ call \in OutcomeCall
    BY CallsAreOutcomes
  <2>2. call.outcome = "failed"
    BY <2>1 DEF RefundCall
  <2>3. QED
    BY <1>2, <2>1, <2>2, ReportsStep DEF Refund, At
<1>3. QED
  BY <1>1, <1>2

-----------------------------------------------------------------------------
\* The locals of an execution that goes on with a document.
LEMMA GoingSays ==
  ASSUME NEW r \in Run, NEW d \in Document, Len(d.attempts) <= SequenceBound
  PROVE  /\ Going(r, d) \in Run /\ Going(r, d).at = NextStep(d) /\ NextStep(d) \in Plans
         /\ Going(r, d).claimed = r.claimed /\ Going(r, d).n = Target(d)
<1>1. PlanFacts(d) /\ Len(d.attempts) \in Nat
  BY PlanMeans, OfShape
<1>2. PICK at \in Plans : at = NextStep(d)
  BY <1>1 DEF PlanFacts
<1>3. PICK n \in {0} \cup Sequences : n = Target(d)
  BY <1>1, DeliveryAssumption DEF PlanFacts, Sequences
<1>4. PICK b \in BOOLEAN : b = (n # 0 /\ d.attempts[n].receipt)
  OBVIOUS
<1>5. Going(r, d) = [Idle EXCEPT !.at = at, !.claimed = r.claimed, !.n = n,
                                 !.financial = r.financial, !.receipt = b]
  BY <1>2, <1>3, <1>4 DEF Going, Target
<1>6. at \in Steps
  BY <1>2 DEF Plans, Steps
<1>7. PICK f \in BOOLEAN, c \in 0 .. SequenceBound : f = r.financial /\ c = r.claimed
  BY DEF Run
<1>8. Idle \in Run
  BY DeliveryAssumption DEF Idle, Run, Steps, Open, Final
<1>9. PICK going : going = [Idle EXCEPT !.at = at, !.claimed = c, !.n = n,
                                        !.financial = f, !.receipt = b]
  OBVIOUS
<1>10. going \in Run /\ going.at = at /\ going.claimed = c /\ going.n = n
  BY <1>6, <1>8, <1>9, ZenonT(60) DEF Run
<1>11. QED
  BY <1>2, <1>3, <1>5, <1>7, <1>9, <1>10

LEMMA LinkStep ==
  ASSUME DInv, NEW w \in Workers, Link(w)
  PROVE  DInv'
<1>1. PICK r : r = run[w]
  OBVIOUS
<1>2. r \in Run /\ Fits(r) /\ r.at = "link" /\ r.n \in Nat /\ r.claimed \in Nat
  BY <1>1, OwnLocals DEF Link, At
<1>3. /\ doc \in Document /\ Len(doc.attempts) <= SequenceBound /\ Len(doc.attempts) \in Nat
      /\ PlanFacts(doc)
  BY PlanMeans, AttemptIsSequence DEF DInv, ShapeInv
<1>4. PICK going : going = Going(r, doc)
  OBVIOUS
<1>5. /\ going \in Run /\ NextStep(doc) \in Plans
      /\ going.claimed = r.claimed /\ going.n = Target(doc)
  BY <1>2, <1>3, <1>4, GoingSays
<1>6. PICK q : /\ \/ q = [Idle EXCEPT !.at = "reconcile"]
                  \/ q = [Idle EXCEPT !.at = "bury"] /\ r.status = "failed"
                  \/ q = [going EXCEPT !.at = "start", !.next = NextStep(doc)]
                  \/ q = [Idle EXCEPT !.at = "close", !.digest = r.bill]
                     /\ r.status = "succeeded" /\ IsVerified /\ package.digest = r.bill
               /\ Update(w, Owns(w) /\ Authorized /\ source, doc, q)
  <2>1. PICK q : q = (IF doc.reconcile THEN [Idle EXCEPT !.at = "reconcile"]
       ELSE IF r.status = "failed" THEN [Idle EXCEPT !.at = "bury"]
       ELSE IF r.status # "succeeded"
            THEN [Going(r, doc) EXCEPT !.at = "start", !.next = NextStep(doc)]
       ELSE IF IsVerified /\ package.digest = r.bill
            THEN [Idle EXCEPT !.at = "close", !.digest = r.bill]
       ELSE [Idle EXCEPT !.at = "reconcile"])
    OBVIOUS
  <2>2. Update(w, Owns(w) /\ Authorized /\ source, doc, q)
    BY <1>1, <2>1 DEF Link
  <2>3. QED
    BY <1>4, <2>1, <2>2
<1>7. \/ DInv'
      \/ /\ Owns(w) /\ run' = [run EXCEPT ![w] = q]
         /\ UNCHANGED <<vars, item, doc, expired, source, supplier, files, others>>
  BY <1>6, UpdateCases
<1>8. CASE DInv'
  BY <1>8
<1>9. CASE /\ Owns(w) /\ run' = [run EXCEPT ![w] = q]
           /\ UNCHANGED <<vars, item, doc, expired, source, supplier, files, others>>
  <2>1. Quiet
    BY <1>9, QuietThought
  <2>2. Idle \in Run /\ Idle.n = 0 /\ Idle.claimed = 0
    BY OwnLocals
  <2>3. CASE q = [Idle EXCEPT !.at = "reconcile"]
    <3>1. q \in Run /\ q.at \in Calm /\ q.n = 0 /\ q.claimed = 0
      BY <2>2, <2>3, AtAnotherStep DEF Steps, Calm
    <3>2. QED
      BY <1>9, <2>1, <3>1, QuietCalm
  <2>4. ASSUME q \in Run, q.n = 0, q.claimed \in Nat, q.claimed = 0, q.at \in {"bury", "close"},
               Fits(q)'
        PROVE  DInv'
    <3>1. run'[w] = q
      BY <1>9, <2>4, OneRuns
    <3>2. Fits(run[w])'
      BY <2>4, <3>1
    <3>3. Moves(w)
      BY <2>4, <3>1, <3>2 DEF Moves, MayPost, Works, Rests, AtStage, Preparing, Plans, BeforePost
    <3>4. QED
      BY <1>9, <2>1, <2>4, <3>3, QuietStep
  <2>5. CASE q = [Idle EXCEPT !.at = "bury"] /\ r.status = "failed"
    <3>1. q \in Run /\ q.at = "bury" /\ q.n = 0 /\ q.claimed = 0
      BY <2>2, <2>5, AtAnotherStep DEF Steps
    <3>2. tasks[Key].status = "failed"
      BY <1>2, <2>5 DEF Fits, Final
    <3>3. Fits(q)'
      BY <1>3, <1>9, <3>1, <3>2 DEF Fits, AtStage, Preparing, vars
    <3>4. QED
      BY <2>4, <3>1, <3>3
  <2>6. CASE q = [Idle EXCEPT !.at = "close", !.digest = r.bill]
             /\ r.status = "succeeded" /\ IsVerified /\ package.digest = r.bill
    <3>1. q \in Run /\ q.at = "close" /\ q.n = 0 /\ q.claimed = 0 /\ q.digest = r.bill
      BY <1>2, <2>2, <2>6 DEF Run, Steps
    <3>2. /\ tasks[Key].status = "succeeded" /\ tasks[Key].result = r.bill
          /\ package # NoPackage
      BY <1>2, <2>6 DEF Fits, Final, IsVerified
    <3>3. Fits(q)'
      BY <1>3, <1>9, <2>6, <3>1, <3>2 DEF Fits, AtStage, Preparing, vars, files
    <3>4. QED
      BY <2>4, <3>1, <3>3
  <2>7. CASE q = [going EXCEPT !.at = "start", !.next = NextStep(doc)]
    <3>1. PICK next \in Plans : next = NextStep(doc)
      BY <1>5
    <3>2. /\ q \in Run /\ q.at = "start" /\ q.next = next
          /\ q.n = Target(doc) /\ q.claimed = r.claimed
      BY <1>5, <2>7, <3>1 DEF Run, Steps, Plans
    <3>3. doc.owner = w /\ Works(r) /\ ~Rests(r)
      BY <1>2, <1>9 DEF Owns, Works, Rests, AtStage, Preparing, Plans
    <3>4. /\ r.n = 0
          /\ \A m \in 1 .. Len(doc.attempts) :
               m > r.claimed /\ m # r.n => doc.attempts[m].status \notin Unresolved
      BY <1>1, <3>3 DEF DInv, LeaseInv
    <3>5. Target(doc) \in 0 .. Len(doc.attempts) /\ Target(doc) <= r.claimed
      BY <1>2, <1>3, <3>4 DEF PlanFacts
    <3>6. next = "check" => Target(doc) >= 1
      BY <1>3, <3>1 DEF PlanFacts
    <3>7. Fits(q)'
      BY <1>2, <1>3, <1>9, <3>1, <3>2, <3>5, <3>6 DEF Fits, AtStage, Preparing
    <3>8. run'[w] = q
      BY <1>9, <3>2, OneRuns
    <3>9. Fits(run[w])'
      BY <3>7, <3>8
    <3>10. Continues(w)
      BY <1>1, <3>1, <3>2, <3>3, <3>4, <3>8 DEF Continues, Rests, Plan, Preparing
    <3>11. Moves(w)
      BY <3>2, <3>3, <3>8, <3>9, <3>10 DEF Moves, MayPost, BeforePost
    <3>12. QED
      BY <1>9, <2>1, <3>2, <3>11, QuietStep
  <2>8. QED
    BY <1>6, <2>3, <2>5, <2>6, <2>7
<1>10. QED
  BY <1>7, <1>8, <1>9

-----------------------------------------------------------------------------
\* Updates that leave the document where it stands.
LEMMA UpdateIsSteady ==
  ASSUME DInv, SameCourse, DocumentEnds, UNCHANGED <<vars, supplier, files>>, RestInv',
         reviewed' = reviewed
  PROVE  Steady /\ Unposted
<1>1. JobsKept /\ FilesKept
  BY SameSupplier DEF DInv, supplier, files
<1>2. PackageKept
  BY DEF files, PackageKept
<1>3. [Next]_vars /\ tasks' = tasks
  BY DEF vars
<1>4. RowsKept
  BY <1>3, LedgerKept DEF DInv, RowsKept
<1>5. TaskEnds
  BY <1>3 DEF TaskEnds, DInv, BillsInv
<1>6. QED
  BY <1>1, <1>2, <1>4, <1>5 DEF Steady, Unposted, supplier

\* Of these, the ones after which the execution is done with the lease.
LEMMA LastUpdate ==
  ASSUME DInv, NEW w \in Workers, NEW q \in Run, run' = [run EXCEPT ![w] = q],
         q.at \in Calm, q.n \in {0, run[w].n}, q.claimed \in {0, run[w].claimed},
         SameCourse, DocumentEnds, doc'.owner \in {doc.owner, NoWorker},
         UNCHANGED <<vars, item, expired, source, supplier, files, others>>
  PROVE  DInv'
<1>1. RestInv' /\ reviewed' = reviewed
  BY DEF DInv, RestInv, others
<1>2. Steady /\ Unposted
  BY <1>1, UpdateIsSteady
<1>3. run' \in [Workers -> Run] /\ run'[w] = q /\ \A v \in Workers \ {w} : run'[v] = run[v]
  BY OneRuns
<1>4. Moves(w)
  BY <1>3, CalmMoves DEF SameCourse
<1>5. \A v \in Workers : Moves(v)
  BY <1>3, <1>4 DEF Moves
<1>6. QED
  BY <1>2, <1>3, <1>5, SteadyStep

\* Only what the document says of its state, owner and end changes.
LEMMA SameAttempts ==
  ASSUME DInv, doc' \in Document, doc'.candidate = doc.candidate, doc'.attempts = doc.attempts
  PROVE  SameCourse
BY DEF SameCourse

LEMMA EndStep ==
  ASSUME DInv, NEW w \in Workers, Close(w) \/ Bury(w)
  PROVE  DInv'
<1>1. PICK r : r = run[w]
  OBVIOUS
<1>2. r \in Run /\ Fits(r) /\ doc \in Document
  BY <1>1, OwnLocals DEF DInv, ShapeInv
<1>3. PICK q : q = [r EXCEPT !.at = "clear"]
  OBVIOUS
<1>4. q \in Run /\ q.at \in Calm /\ q.n = r.n /\ q.claimed = r.claimed
  BY <1>2, <1>3, AtAnotherStep DEF Steps, Calm
<1>5. ASSUME NEW d \in Document, d.candidate = doc.candidate, d.attempts = doc.attempts,
             d.owner = doc.owner, NEW allowed \in BOOLEAN, Update(w, allowed, d, q),
             \/ d.status = "failed" /\ tasks[Key].status = "failed"
             \/ /\ d.status = "succeeded" /\ tasks[Key].status = "succeeded"
                /\ d.final = tasks[Key].result
                /\ package # NoPackage /\ package.digest = d.final
      PROVE  DInv'
  <2>1. \/ DInv'
        \/ /\ doc' = d /\ run' = [run EXCEPT ![w] = q]
           /\ UNCHANGED <<vars, item, expired, source, supplier, files, others>>
    BY <1>5, UpdateCases
  <2>2. CASE DInv'
    BY <2>2
  <2>3. CASE /\ doc' = d /\ run' = [run EXCEPT ![w] = q]
             /\ UNCHANGED <<vars, item, expired, source, supplier, files, others>>
    <3>1. SameCourse
      BY <1>5, <2>3, SameAttempts
    <3>2. DocumentEnds
      BY <1>5, <2>3 DEF DocumentEnds
    <3>3. QED
      BY <1>1, <1>4, <1>5, <2>3, <3>1, <3>2, LastUpdate
  <2>4. QED
    BY <2>1, <2>2, <2>3
<1>6. CASE Close(w)
  <2>1. PICK d : d = [doc EXCEPT !.status = "succeeded", !.final = r.digest]
    OBVIOUS
  <2>2. /\ d \in Document /\ d.candidate = doc.candidate /\ d.attempts = doc.attempts
        /\ d.owner = doc.owner /\ d.status = "succeeded" /\ d.final = r.digest
    BY <1>2, <2>1 DEF Document, Run
  <2>3. /\ tasks[Key].status = "succeeded" /\ tasks[Key].result = r.digest
        /\ package # NoPackage /\ package.digest = r.digest
    BY <1>1, <1>2, <1>6 DEF Close, At, Fits
  <2>4. Update(w, Owns(w) /\ Authorized /\ source, d, q)
    BY <1>1, <1>3, <1>6, <2>1 DEF Close
  <2>5. QED
    BY <1>5, <2>2, <2>3, <2>4
<1>7. CASE Bury(w)
  <2>1. PICK d : d = [doc EXCEPT !.status = "failed"]
    OBVIOUS
  <2>2. /\ d \in Document /\ d.candidate = doc.candidate /\ d.attempts = doc.attempts
        /\ d.owner = doc.owner /\ d.status = "failed"
    BY <1>2, <2>1 DEF Document
  <2>3. tasks[Key].status = "failed"
    BY <1>1, <1>2, <1>7 DEF Bury, At, Fits
  <2>4. Update(w, Owns(w) /\ Authorized /\ (r.financial \/ source), d, q)
    BY <1>1, <1>3, <1>7, <2>1 DEF Bury
  <2>5. QED
    BY <1>5, <2>2, <2>3, <2>4
<1>8. QED
  BY <1>6, <1>7

LEMMA ReconcilesStep ==
  ASSUME DInv, NEW w \in Workers, Reconciles(w)
  PROVE  DInv'
<1>1. PICK d : d = [doc EXCEPT !.status = "unknown", !.reconcile = TRUE]
  OBVIOUS
<1>2. /\ d \in Document /\ d.candidate = doc.candidate /\ d.attempts = doc.attempts
      /\ d.owner = doc.owner /\ d.status = "unknown"
  <2>1. PICK b \in BOOLEAN : d = [doc EXCEPT !.status = "unknown", !.reconcile = b]
    BY <1>1
  <2>2. QED
    BY <2>1 DEF DInv, ShapeInv, Document
<1>3. \/ DInv'
      \/ /\ doc' = d /\ run' = [run EXCEPT ![w] = Failed(run[w])]
         /\ UNCHANGED <<vars, item, expired, source, supplier, files, others>>
  BY <1>1, UpdateCases DEF Reconciles, Owns
<1>4. CASE DInv'
  BY <1>4
<1>5. CASE /\ doc' = d /\ run' = [run EXCEPT ![w] = Failed(run[w])]
           /\ UNCHANGED <<vars, item, expired, source, supplier, files, others>>
  <2>1. SameCourse /\ DocumentEnds
    BY <1>2, <1>5, SameAttempts DEF DocumentEnds
  <2>2. QED
    BY <1>2, <1>5, <2>1, OwnLocals, LastUpdate
<1>6. QED
  BY <1>3, <1>4, <1>5

LEMMA ClearStep ==
  ASSUME DInv, NEW w \in Workers, Clear(w)
  PROVE  DInv'
<1>1. /\ doc' \in Document /\ doc'.candidate = doc.candidate /\ doc'.attempts = doc.attempts
      /\ doc'.owner \in {doc.owner, NoWorker}
      /\ doc'.status = doc.status /\ doc'.final = doc.final
  BY DEF Clear, DInv, ShapeInv, Document
<1>2. SameCourse /\ DocumentEnds
  BY <1>1, SameAttempts DEF DocumentEnds
<1>3. QED
  BY <1>1, <1>2, OwnLocals, LastUpdate DEF Clear, Ends

\* A doubt is on the first marker of the document.
LEMMA DoubtStep ==
  ASSUME DInv, NEW w \in Workers, Doubt(w)
  PROVE  DInv'
<1> DEFINE open == {n \in 1 .. Len(doc.attempts) : doc.attempts[n].status = "submitted"}
           first == CHOOSE n \in open : \A other \in open : n <= other
           doubted == [n \in DOMAIN doc.attempts |->
                         IF n \in open /\ n = first
                         THEN [doc.attempts[n] EXCEPT !.status = "unknown"] ELSE doc.attempts[n]]
<1>1. doc' = IF ~Owns(w) THEN doc
             ELSE [doc EXCEPT !.status = "unknown", !.attempts = doubted]
  BY DEF Doubt
<1>2. PICK f : f = first
  OBVIOUS
<1>3. doubted = [n \in DOMAIN doc.attempts |->
                   IF n \in open /\ n = f
                   THEN [doc.attempts[n] EXCEPT !.status = "unknown"] ELSE doc.attempts[n]]
  BY <1>2
<1>4. /\ doc \in Document /\ Len(doc.attempts) \in Nat
      /\ DOMAIN doc.attempts = 1 .. Len(doc.attempts)
      /\ \A n \in 1 .. Len(doc.attempts) : doc.attempts[n] \in StageAttempt
  BY OfShape DEF DInv, ShapeInv
<1>5. PICK L \in Nat : L = Len(doc.attempts)
  BY <1>4
<1>6. /\ doubted \in [1 .. L -> StageAttempt]
      /\ \A n \in 1 .. L :
           /\ doubted[n].stage = doc.attempts[n].stage
           /\ \/ doubted[n].status = doc.attempts[n].status
              \/ doubted[n].status \in Unresolved /\ doc.attempts[n].status \in Unresolved
  <2> HIDE DEF first
  <2>1. \A n \in 1 .. L : n \in open /\ n = f => doc.attempts[n].status = "submitted"
    BY <1>5
  <2> HIDE DEF open
  <2>2. \A n \in 1 .. L : doubted[n] = IF n \in open /\ n = f
             THEN [doc.attempts[n] EXCEPT !.status = "unknown"] ELSE doc.attempts[n]
    BY <1>3, <1>4, <1>5
  <2>3. DOMAIN doubted = 1 .. L /\ doubted = [n \in 1 .. L |-> doubted[n]]
    BY <1>3, <1>4, <1>5
  <2> HIDE DEF doubted
  <2>4. ASSUME NEW n \in 1 .. L
        PROVE  /\ doubted[n] \in StageAttempt /\ doubted[n].stage = doc.attempts[n].stage
               /\ \/ doubted[n].status = doc.attempts[n].status
                  \/ doubted[n].status \in Unresolved /\ doc.attempts[n].status \in Unresolved
    BY <1>4, <1>5, <2>1, <2>2, ZenonT(60) DEF StageAttempt, Unresolved
  <2>5. QED
    BY <2>3, <2>4
<1> HIDE DEF open, first, doubted
<1>7. doubted \in Seq(StageAttempt) /\ Len(doubted) = L
  BY <1>5, <1>6
<1>8. /\ doc' \in Document /\ doc'.candidate = doc.candidate /\ doc'.owner = doc.owner
      /\ \/ doc' = doc
         \/ doc'.status = "unknown" /\ doc'.attempts = doubted
  BY <1>1, <1>4, <1>7 DEF Document
<1>9. SameCourse
  BY <1>4, <1>5, <1>6, <1>7, <1>8 DEF SameCourse
<1>10. DocumentEnds
  BY <1>8 DEF DocumentEnds
<1>11. PICK q : q = [run[w] EXCEPT !.at = "report"] /\ run' = [run EXCEPT ![w] = q]
  BY DEF Doubt, GoTo
<1>12. q \in Run /\ q.at \in Calm /\ q.n = run[w].n /\ q.claimed = run[w].claimed
  BY <1>11, OwnLocals, AtAnotherStep DEF Steps, Calm
<1>13. UNCHANGED <<vars, item, expired, source, supplier, files, others>>
  BY DEF Doubt
<1>14. QED
  BY <1>8, <1>9, <1>10, <1>11, <1>12, <1>13, LastUpdate

LEMMA ReceiveStep ==
  ASSUME DInv, NEW w \in Workers, Receive(w)
  PROVE  DInv'
<1>1. PICK n : n = run[w].n
  OBVIOUS
<1>2. n \in 1 .. Len(doc.attempts) /\ doc \in Document /\ doc.attempts[n] \in StageAttempt
  BY <1>1, OwnLocals, AttemptIsSequence DEF Receive, At, Fits, AtStage, DInv, ShapeInv
<1>3. PICK a : a = [doc.attempts[n] EXCEPT !.receipt = TRUE]
  OBVIOUS
<1>4. a \in StageAttempt /\ a.stage = doc.attempts[n].stage /\ a.status = doc.attempts[n].status
  <2>1. PICK b \in BOOLEAN : a = [doc.attempts[n] EXCEPT !.receipt = b]
    BY <1>3
  <2>2. QED
    BY <1>2, <2>1 DEF StageAttempt
<1>5. PICK s : s = [doc.attempts EXCEPT ![n] = a]
  OBVIOUS
<1>6. /\ s \in Seq(StageAttempt) /\ Len(s) = Len(doc.attempts) /\ s[n] = a
      /\ \A m \in 1 .. Len(doc.attempts) : m # n => s[m] = doc.attempts[m]
  <2>1. doc.attempts \in Seq(StageAttempt)
    BY <1>2 DEF Document
  <2>2. QED
    BY <1>2, <1>4, <1>5, <2>1
<1>7. doc' = [doc EXCEPT !.attempts = s]
  BY <1>1, <1>3, <1>5 DEF Receive
<1>8. /\ doc' \in Document /\ doc'.candidate = doc.candidate /\ doc'.owner = doc.owner
      /\ doc'.attempts = s /\ doc'.status = doc.status /\ doc'.final = doc.final
  BY <1>2, <1>6, <1>7 DEF Document
<1>9. SameCourse
  BY <1>2, <1>4, <1>6, <1>8 DEF SameCourse
<1>10. DocumentEnds
  BY <1>8 DEF DocumentEnds
<1>11. UNCHANGED <<vars, supplier, files, reviewed, run>> /\ RestInv'
  BY DEF Receive, DInv, RestInv, others
<1>12. Steady /\ Unposted
  BY <1>9, <1>10, <1>11, UpdateIsSteady
<1>13. QED
  <2>1. /\ run' \in [Workers -> Run] /\ \A v \in Workers : Moves(v)
        /\ doc'.owner \in {doc.owner, NoWorker}
    BY <1>8, <1>11 DEF Moves, DInv, LocalsInv
  <2>2. QED
    BY <1>12, <2>1, SteadyStep

\* A new execution starts with no attempt of its own: all are from before its claim.
LEMMA ClaimStep ==
  ASSUME DInv, NEW w \in Workers, Claim(w)
  PROVE  DInv'
<1>1. doc \in Document /\ Len(doc.attempts) \in Nat /\ Len(doc.attempts) <= SequenceBound
  BY AttemptIsSequence DEF DInv, ShapeInv
<1>2. /\ doc' \in Document /\ doc'.candidate = doc.candidate /\ doc'.attempts = doc.attempts
      /\ doc'.owner = w /\ doc'.final = doc.final
      /\ doc'.status = doc.status \/ doc'.status = "prepared"
  BY <1>1 DEF Claim, Document
<1>3. SameCourse /\ DocumentEnds
  BY <1>2, SameAttempts DEF DocumentEnds
<1>4. Steady /\ Unposted
  <2>1. UNCHANGED <<vars, supplier, files, reviewed>> /\ RestInv'
    BY DEF Claim, DInv, RestInv, others
  <2>2. QED
    BY <1>3, <2>1, UpdateIsSteady
<1>5. PICK q : /\ run' = [run EXCEPT ![w] = q]
               /\ q = [Idle EXCEPT !.at = "reserve", !.claimed = Len(doc.attempts)]
  BY DEF Claim
<1>6. q \in Run /\ q.at = "reserve" /\ q.claimed = Len(doc.attempts) /\ q.n = 0
  <2>1. Idle \in Run /\ Idle.n = 0
    BY OwnLocals
  <2>2. PICK c \in 0 .. SequenceBound : c = Len(doc.attempts)
    BY <1>1, DeliveryAssumption
  <2>3. QED
    BY <1>5, <2>1, <2>2, ZenonT(60) DEF Run, Steps
<1>7. run' \in [Workers -> Run] /\ run'[w] = q /\ \A v \in Workers \ {w} : run'[v] = run[v]
  BY <1>5, <1>6, OneRuns
<1>8. ~Rests(q) /\ ~MayPost(q) /\ q.at \notin AtStage \cup Preparing
  BY <1>6 DEF Rests, MayPost, AtStage, Preparing, Plans, BeforePost
<1>9. Fits(q)'
  BY <1>1, <1>2, <1>6, <1>8 DEF Fits
<1>10. LocalsInv'
  <2>1. Fits(run[w])'
    BY <1>7, <1>9
  <2>2. \A v \in Workers : run'[v] = run[v] \/ Fits(run[v])'
    BY <1>7, <2>1
  <2>3. QED
    BY <1>4, <1>7, <2>2, LocalsKept
<1>11. LeaseInv'
  <2>1. \A v \in Workers \ {w} : run'[v].n <= Len(doc.attempts)
    BY <1>7, OwnLocals DEF Fits
  <2>2. QED
    BY <1>1, <1>2, <1>6, <1>7, <1>8, <2>1 DEF LeaseInv
<1>12. MarkerInv'
  BY <1>4, <1>7, <1>8, MarkersKept
<1>13. ShapeInv' /\ CourseInv' /\ PackageInv' /\ BillsInv' /\ TypeOK' /\ RowsLinked' /\ RestInv'
  BY <1>4, CourseInvKept, EndsKept DEF Steady, RowsKept
<1>14. QED
  BY <1>10, <1>11, <1>12, <1>13 DEF DInv

\* What happens around the executions.
LEMMA QuietRest ==
  ASSUME DInv, Quiet, UNCHANGED run
  PROVE  DInv'
BY QuietIsSteady, SteadyStep DEF Moves, DInv, LocalsInv

LEMMA ExpireStep ==
  ASSUME DInv, Expire
  PROVE  DInv'
<1>1. RestInv' /\ UNCHANGED <<vars, doc, supplier, files, run, reviewed>>
  BY DeliveryAssumption DEF Expire, DInv, RestInv, Disturbs
<1>2. SameCourse /\ DocumentEnds
  BY <1>1, SameDocument DEF DInv, DocumentEnds
<1>3. Steady /\ Unposted
  BY <1>1, <1>2, UpdateIsSteady
<1>4. QED
  BY <1>1, <1>3, SteadyStep DEF Moves, DInv, LocalsInv

\* What people do to the ledger is one of its operations.
LEMMA ChangeCalls ==
  ASSUME Change
  PROVE  [Next]_vars
<1>1. CASE TakeOver \/ EditSource
  BY <1>1 DEF TakeOver, EditSource
<1>2. ASSUME NEW count \in 0 .. 1, NEW digest \in Digests, Reconcile(Key, count, digest)
      PROVE  [Next]_vars
  <2>1. count \in 0 .. MaxResults
    BY DeliveryAssumption, LimitAssumption
  <2>2. QED
    BY <1>2, <2>1, KeyIsRow DEF Next, Platform
<1>3. CASE ReleaseUnsubmitted(Key)
  BY <1>3, KeyIsRow DEF Next, Member
<1>4. CASE Administer
  BY <1>4 DEF Administer, Next, Platform
<1>5. QED
  BY <1>1, <1>2, <1>3, <1>4 DEF Change, Review

LEMMA ChangeStep ==
  ASSUME DInv, Change
  PROVE  DInv'
<1>1. UNCHANGED <<doc, expired, supplier, files, run>> /\ Disturbs
  BY DEF Change
<1>2. [Next]_vars
  BY ChangeCalls
<1>3. /\ item' \in {"queued", "ours", "taken"} /\ source' \in BOOLEAN /\ reviewed' \in BOOLEAN
      /\ \/ reviewed' = TRUE
         \/ reviewed' = reviewed /\ tasks' = tasks
  BY DEF Change, TakeOver, EditSource, Review, Administer, SetOperators, ConfigureAccount,
         DInv, RestInv, vars
<1>4. RestInv'
  BY <1>1, <1>3, DeliveryAssumption DEF DInv, RestInv, Disturbs
<1>5. TaskEnds
  BY <1>3 DEF TaskEnds, DInv, BillsInv
<1>6. QED
  BY <1>1, <1>2, <1>4, <1>5, QuietRest DEF Quiet

-----------------------------------------------------------------------------
\* Calls of a supplier and writes of private files.
LEMMA CallIsSteady ==
  ASSUME DInv, UNCHANGED <<vars, item, doc, expired, source, others>>,
         JobsKept, FilesKept, PackageKept
  PROVE  Steady /\ doc'.owner \in {doc.owner, NoWorker}
<1>1. SameCourse /\ DocumentEnds
  BY SameDocument DEF DInv, DocumentEnds
<1>2. [Next]_vars /\ tasks' = tasks /\ reviewed' = reviewed
  BY DEF vars, others
<1>3. RestInv'
  BY DEF DInv, RestInv, others
<1>4. RowsKept
  BY <1>2, <1>3, LedgerKept DEF DInv, RowsKept
<1>5. TaskEnds
  BY <1>2 DEF TaskEnds, DInv, BillsInv
<1>6. QED
  BY <1>1, <1>4, <1>5 DEF Steady

LEMMA CallStep ==
  ASSUME DInv, Steady, doc'.owner \in {doc.owner, NoWorker}, Unposted,
         NEW w \in Workers, NEW q \in Run, run' = [run EXCEPT ![w] = q],
         \/ /\ q.claimed = run[w].claimed /\ q.n = run[w].n /\ Fits(q)' /\ ~MayPost(q)
            /\ Works(q) => Rests(run[w]) /\ Rests(q) /\ Plan(q) = Plan(run[w])
         \/ q = Failed(run[w])
  PROVE  DInv'
<1>1. run' \in [Workers -> Run] /\ run'[w] = q /\ \A v \in Workers \ {w} : run'[v] = run[v]
  BY OneRuns
<1>2. Moves(w)
  <2>1. CASE /\ q.claimed = run[w].claimed /\ q.n = run[w].n /\ Fits(q)' /\ ~MayPost(q)
             /\ Works(q) => Rests(run[w]) /\ Rests(q) /\ Plan(q) = Plan(run[w])
    <3>1. Fits(run[w])'
      BY <1>1, <2>1
    <3>2. QED
      BY <1>1, <2>1, <3>1, StandsAndMoves DEF Works
  <2>2. CASE q = Failed(run[w])
    BY <1>1, <2>2, CalmMoves, OwnLocals DEF Steady, SameCourse
  <2>3. QED
    BY <2>1, <2>2
<1>3. \A v \in Workers : Moves(v)
  BY <1>1, <1>2 DEF Moves
<1>4. QED
  BY <1>1, <1>3, SteadyStep

\* The attempt an execution is at.
LEMMA AtAttempt ==
  ASSUME DInv, NEW w \in Workers, run[w].at \in AtStage
  PROVE  /\ run[w].n \in 1 .. Len(doc.attempts) /\ run[w].n \in Sequences
         /\ doc.attempts[run[w].n] \in StageAttempt
         /\ job[run[w].n] \in JobStates /\ posts[run[w].n] \in 0 .. 1
         /\ file[run[w].n] \in {"none", "proof", "result"}
<1>1. run[w].n \in 1 .. Len(doc.attempts)
  BY OwnLocals, AttemptIsSequence DEF DInv, Fits
<1>2. run[w].n \in Sequences /\ doc.attempts[run[w].n] \in StageAttempt
  BY <1>1, AttemptIsSequence DEF DInv
<1>3. QED
  BY <1>1, <1>2 DEF DInv, ShapeInv

\* The marker was set by this execution alone, and its first POST is its last.
LEMMA SubmitStep ==
  ASSUME DInv, NEW w \in Workers, Submit(w)
  PROVE  DInv'
<1>1. PICK r : r = run[w]
  OBVIOUS
<1>2. PICK n : n = r.n
  OBVIOUS
<1>3. r \in Run /\ Fits(r) /\ r.at = "post" /\ MayPost(r)
  BY <1>1, OwnLocals DEF Submit, At, Fits, MayPost, BeforePost
<1>4. /\ n \in 1 .. Len(doc.attempts) /\ n \in Sequences
      /\ posts[n] = 0 /\ job[n] = "none"
  BY <1>1, <1>2, <1>3, AtAttempt DEF AtStage, DInv, MarkerInv
<1>5. /\ posts' = [posts EXCEPT ![n] = posts[n] + 1]
      /\ job' = [job EXCEPT ![n] = "processing"]
      /\ UNCHANGED <<vars, item, doc, expired, source, files, others>>
  BY <1>1, <1>2, <1>4 DEF Submit
<1>6. ShapeInv /\ CourseInv /\ MarkerInv /\ Len(doc.attempts) \in Nat
  BY AttemptIsSequence DEF DInv
<1>7. JobsKept
  BY <1>4, <1>5, <1>6 DEF JobsKept, ShapeInv, JobStates, Ended
<1>8. posts' \in [Sequences -> 0 .. 1] /\ file' = file
  BY <1>4, <1>5, <1>6 DEF ShapeInv, files
<1>9. FilesKept
  <2>1. ASSUME NEW m \in Sequences
        PROVE  /\ file'[m] = "proof" => job'[m] \in Answered
               /\ file'[m] = "result" => job'[m] \in Usable
               /\ m > Len(doc.attempts) => posts'[m] = 0 /\ job'[m] = "none" /\ file'[m] = "none"
    <3>1. CASE m = n
      BY <1>4, <1>6, <1>8, <3>1 DEF CourseInv, Answered, Usable
    <3>2. CASE m # n
      BY <1>5, <1>6, <1>8, <3>2 DEF CourseInv, ShapeInv
    <3>3. QED
      BY <3>1, <3>2
  <2>2. QED
    BY <1>6, <1>8, <2>1 DEF FilesKept, ShapeInv
<1>10. PICK q : run' = [run EXCEPT ![w] = q] /\ q = [r EXCEPT !.at = "answer"]
  BY <1>1 DEF Submit, GoTo
<1>11. q \in Run /\ q.at = "answer" /\ q.n = r.n /\ q.claimed = r.claimed
  BY <1>3, <1>10, AtAnotherStep DEF Steps
<1>12. Fits(q)'
  BY <1>3, <1>5, <1>11 DEF Fits, AtStage, Preparing
<1>13. Steady /\ doc'.owner \in {doc.owner, NoWorker}
  BY <1>5, <1>7, <1>9, CallIsSteady DEF PackageKept, files
<1>14. Unposted
  <2>1. ASSUME NEW v \in Workers, MayPost(run'[v])
        PROVE  run'[v].n # n /\ run'[v].n \in Sequences
    <3>1. v # w /\ run'[v] = run[v]
      BY <1>10, <1>11, <2>1, OneRuns DEF MayPost, BeforePost
    <3>2. run[v].n # n
      BY <1>1, <1>2, <1>3, <1>6, <2>1, <3>1 DEF MarkerInv
    <3>3. run[v].n \in Sequences
      BY <2>1, <3>1, AtAttempt DEF MayPost, BeforePost, AtStage
    <3>4. QED
      BY <3>1, <3>2, <3>3
  <2>2. QED
    BY <1>5, <1>6, <2>1 DEF Unposted, ShapeInv
<1>15. QED
  BY <1>1, <1>3, <1>10, <1>11, <1>12, <1>13, <1>14, CallStep
     DEF MayPost, Works, Rests, Plan, AtStage, Preparing, Plans, BeforePost

\* The first end that is told stands.
LEMMA AnswerStep ==
  ASSUME DInv, NEW w \in Workers, Answer(w)
  PROVE  DInv'
<1>1. PICK r : r = run[w]
  OBVIOUS
<1>2. PICK n : n = r.n
  OBVIOUS
<1>3. r \in Run /\ Fits(r) /\ r.at \in {"answer", "query"}
  BY <1>1, OwnLocals DEF Answer, At
<1>4. n \in 1 .. Len(doc.attempts) /\ n \in Sequences
  BY <1>1, <1>2, <1>3, AtAttempt DEF AtStage
<1>5. PICK end \in EndsOf(doc.attempts[n].stage), definite \in BOOLEAN :
        /\ job[n] \in {"processing", end}
        /\ job' = [job EXCEPT ![n] = end]
        /\ run' = [run EXCEPT ![w].definite = definite,
                              ![w].at = IF end = "failed" THEN "fail"
                                        ELSE IF definite THEN "complete" ELSE "save"]
  BY <1>1, <1>2 DEF Answer
<1>6. end \in Ended
  BY DEF EndsOf, Ended
<1>7. /\ ShapeInv /\ CourseInv /\ MarkerInv
      /\ UNCHANGED <<vars, item, doc, expired, source, posts, files, others>>
  BY DEF DInv, Answer
<1>8. JobsKept
  BY <1>4, <1>5, <1>6, <1>7 DEF JobsKept, ShapeInv, JobStates, Ended
<1>9. FilesKept
  <2>1. ASSUME NEW m \in Sequences
        PROVE  /\ file[m] = "proof" => job'[m] \in Answered
               /\ file[m] = "result" => job'[m] \in Usable
               /\ m > Len(doc.attempts) => posts[m] = 0 /\ job'[m] = "none" /\ file[m] = "none"
    <3>1. CASE m = n
      BY <1>4, <1>5, <1>7, <1>8, <3>1, AttemptIsSequence
         DEF CourseInv, JobsKept, Answered, Usable, Ended
    <3>2. CASE m # n
      BY <1>5, <1>7, <3>2 DEF CourseInv, ShapeInv
    <3>3. QED
      BY <3>1, <3>2
  <2>2. QED
    BY <1>7, <2>1 DEF FilesKept, ShapeInv, files
<1>10. PICK step \in {"fail", "complete", "save"} :
          /\ step = IF end = "failed" THEN "fail" ELSE IF definite THEN "complete" ELSE "save"
  OBVIOUS
<1>11. PICK q : run' = [run EXCEPT ![w] = q] /\ q = [r EXCEPT !.definite = definite, !.at = step]
  <2>1. run' = [[run EXCEPT ![w].definite = definite] EXCEPT ![w].at = step]
    BY <1>5, <1>10
  <2>2. PICK p : p = [r EXCEPT !.definite = definite]
    OBVIOUS
  <2>3. [run EXCEPT ![w].definite = definite] = [run EXCEPT ![w] = p]
    BY <1>1, <2>2 DEF DInv, LocalsInv
  <2>4. [run EXCEPT ![w] = p][w] = p
    BY DEF DInv, LocalsInv
  <2>5. run' = [run EXCEPT ![w] = [p EXCEPT !.at = step]]
    BY <2>1, <2>3, <2>4 DEF DInv, LocalsInv
  <2>6. QED
    BY <2>2, <2>5
<1>12. q \in Run /\ q.at = step /\ q.n = r.n /\ q.claimed = r.claimed
  <2>1. PICK p : p = [r EXCEPT !.definite = definite]
    OBVIOUS
  <2>2. p \in Run /\ p.n = r.n /\ p.claimed = r.claimed
    BY <1>3, <2>1 DEF Run
  <2>3. q = [p EXCEPT !.at = step]
    BY <1>11, <2>1
  <2>4. QED
    BY <2>2, <2>3, AtAnotherStep DEF Steps
<1>13. job'[n] = end
  BY <1>4, <1>5, <1>7 DEF ShapeInv
<1>14. /\ step = "fail" => job'[n] = "failed"
       /\ step \in {"complete", "save"} => job'[n] \in Answered
  BY <1>6, <1>10, <1>13 DEF Ended, Answered
<1>15. Fits(q)'
  BY <1>2, <1>3, <1>7, <1>12, <1>14 DEF Fits, AtStage, Preparing
<1>16. Steady /\ doc'.owner \in {doc.owner, NoWorker}
  BY <1>7, <1>8, <1>9, CallIsSteady DEF PackageKept, files
<1>17. Unposted
  <2>1. ASSUME NEW v \in Workers, MayPost(run'[v])
        PROVE  run'[v].n # n /\ run'[v].n \in Sequences
    <3>1. v # w /\ run'[v] = run[v]
      BY <1>11, <1>12, <2>1, OneRuns DEF MayPost, BeforePost
    <3>2. job[run[v].n] = "none" /\ run[v].n \in Sequences
      BY <1>7, <2>1, <3>1, AtAttempt DEF MarkerInv, MayPost, BeforePost, AtStage
    <3>3. QED
      BY <1>5, <1>6, <3>1, <3>2 DEF Ended
  <2>2. QED
    BY <1>5, <1>7, <2>1 DEF Unposted, ShapeInv
<1>18. ~MayPost(q) /\ Rests(r) /\ Rests(q) /\ Plan(q) = Plan(r)
  BY <1>3, <1>12 DEF MayPost, Rests, Plan, AtStage, Preparing, Plans, BeforePost
<1>19. QED
  BY <1>1, <1>11, <1>12, <1>15, <1>16, <1>17, <1>18, CallStep

\* Files are written for jobs that ended as the file says.
LEMMA FileIsSteady ==
  ASSUME DInv, UNCHANGED <<vars, item, doc, expired, source, supplier, package, others>>,
         NEW n \in 1 .. Len(doc.attempts), NEW content \in {"none", "proof", "result"},
         file' = [file EXCEPT ![n] = content],
         content = "proof" => job[n] \in Answered,
         content = "result" => job[n] \in Usable
  PROVE  Steady /\ doc'.owner \in {doc.owner, NoWorker} /\ Unposted
<1>1. ShapeInv /\ CourseInv /\ n \in Sequences /\ Len(doc.attempts) \in Nat
      /\ UNCHANGED <<job, posts>>
  BY AttemptIsSequence DEF DInv, supplier
<1>2. JobsKept
  BY <1>1 DEF JobsKept, ShapeInv
<1>3. FilesKept
  <2>1. ASSUME NEW m \in Sequences
        PROVE  /\ file'[m] = "proof" => job[m] \in Answered
               /\ file'[m] = "result" => job[m] \in Usable
               /\ m > Len(doc.attempts) => posts[m] = 0 /\ job[m] = "none" /\ file'[m] = "none"
    <3>1. CASE m = n
      BY <1>1, <3>1 DEF ShapeInv
    <3>2. CASE m # n
      BY <1>1, <3>2 DEF CourseInv, ShapeInv
    <3>3. QED
      BY <3>1, <3>2
  <2>2. file' \in [Sequences -> {"none", "proof", "result"}]
    BY <1>1 DEF ShapeInv
  <2>3. QED
    BY <1>1, <2>1, <2>2 DEF FilesKept, ShapeInv
<1>4. QED
  BY <1>1, <1>2, <1>3, CallIsSteady DEF PackageKept, Unposted

LEMMA CompleteStep ==
  ASSUME DInv, NEW w \in Workers, Complete(w)
  PROVE  DInv'
<1>1. PICK r : r = run[w]
  OBVIOUS
<1>2. PICK n : n = r.n
  OBVIOUS
<1>3. r \in Run /\ Fits(r) /\ r.at = "complete"
  BY <1>1, OwnLocals DEF Complete, At
<1>4. n \in 1 .. Len(doc.attempts) /\ n \in Sequences /\ file[n] \in {"none", "proof", "result"}
  BY <1>1, <1>2, <1>3, AtAttempt DEF AtStage
<1>5. PICK content \in {"proof", "result"} :
         content = IF file[n] = "result" THEN "result" ELSE "proof"
  OBVIOUS
<1>6. file' = [file EXCEPT ![n] = content]
  BY <1>1, <1>2, <1>4, <1>5 DEF Complete, DInv, ShapeInv
<1>7. job[n] \in Answered /\ (content = "result" => job[n] \in Usable)
  BY <1>2, <1>3, <1>4, <1>5 DEF Fits, DInv, CourseInv
<1>8. UNCHANGED <<vars, item, doc, expired, source, supplier, package, others>>
  BY DEF Complete
<1>9. Steady /\ doc'.owner \in {doc.owner, NoWorker} /\ Unposted
  BY <1>4, <1>5, <1>6, <1>7, <1>8, FileIsSteady
<1>10. PICK q : run' = [run EXCEPT ![w] = q] /\ q = [r EXCEPT !.at = "save"]
  BY <1>1 DEF Complete, GoTo
<1>11. q \in Run /\ q.at = "save" /\ q.n = r.n /\ q.claimed = r.claimed
  BY <1>3, <1>10, AtAnotherStep DEF Steps
<1>12. Fits(q)'
  BY <1>2, <1>3, <1>7, <1>8, <1>11 DEF Fits, AtStage, Preparing, supplier
<1>13. QED
  BY <1>1, <1>3, <1>9, <1>10, <1>11, <1>12, CallStep
     DEF MayPost, Rests, Plan, AtStage, Preparing, Plans, BeforePost

LEMMA SaveStep ==
  ASSUME DInv, NEW w \in Workers, Save(w)
  PROVE  DInv'
<1>1. PICK r : r = run[w]
  OBVIOUS
<1>2. PICK n : n = r.n
  OBVIOUS
<1>3. r \in Run /\ Fits(r) /\ r.at = "save"
  BY <1>1, OwnLocals DEF Save, At
<1>4. n \in 1 .. Len(doc.attempts) /\ job[n] \in Answered
  BY <1>1, <1>2, <1>3, AtAttempt DEF AtStage, Fits
<1>5. UNCHANGED <<vars, item, doc, expired, source, supplier, package, others>>
  BY DEF Save
<1>6. CASE job[n] # "bad"
  <2>1. file' = [file EXCEPT ![n] = "result"] /\ GoTo(w, "record")
    BY <1>1, <1>2, <1>6 DEF Save
  <2>2. job[n] \in Usable
    BY <1>4, <1>6 DEF Answered, Usable
  <2>3. Steady /\ doc'.owner \in {doc.owner, NoWorker} /\ Unposted
    BY <1>4, <1>5, <2>1, <2>2, FileIsSteady
  <2>4. PICK q : run' = [run EXCEPT ![w] = q] /\ q = [r EXCEPT !.at = "record"]
    BY <1>1, <2>1 DEF GoTo
  <2>5. q \in Run /\ q.at = "record" /\ q.n = r.n /\ q.claimed = r.claimed
    BY <1>3, <2>4, AtAnotherStep DEF Steps
  <2>6. Fits(q)'
    BY <1>2, <1>3, <1>5, <2>2, <2>5 DEF Fits, AtStage, Preparing, supplier
  <2>7. QED
    BY <1>1, <1>3, <2>3, <2>4, <2>5, <2>6, CallStep
       DEF MayPost, Rests, Plan, AtStage, Preparing, Plans, BeforePost
<1>7. CASE job[n] = "bad"
  <2>1. file' = file
    BY <1>1, <1>2, <1>7 DEF Save
  <2>2. Quiet
    BY <1>5, <2>1, QuietThought DEF files
  <2>3. CASE Fails(w)
    BY <2>2, <2>3, QuietFail
  <2>4. CASE GoTo(w, "discard") /\ IsWasted(w, doc.attempts[n].stage)
    <3>1. PICK q : run' = [run EXCEPT ![w] = q] /\ q = [r EXCEPT !.at = "discard"]
      BY <1>1, <2>4 DEF GoTo
    <3>2. q \in Run /\ q.at = "discard" /\ q.n = r.n /\ q.claimed = r.claimed
      BY <1>3, <3>1, AtAnotherStep DEF Steps
    <3>3. doc.attempts[n].stage[1] # "main"
      BY <2>4 DEF IsWasted
    <3>4. Fits(q)'
      BY <1>2, <1>3, <1>5, <1>7, <3>2, <3>3 DEF Fits, AtStage, Preparing, supplier
    <3>5. QED
      BY <1>1, <1>3, <2>2, <3>1, <3>2, <3>4, QuietMove
         DEF MayPost, Works, Rests, Plan, AtStage, Preparing, Plans, BeforePost
  <2>5. QED
    BY <1>1, <1>2, <1>7, <2>3, <2>4 DEF Save
<1>8. QED
  BY <1>6, <1>7

\* The image that ends the course is packed, once.
LEMMA PackStep ==
  ASSUME DInv, NEW w \in Workers, Pack(w)
  PROVE  DInv'
<1>1. PICK r : r = run[w]
  OBVIOUS
<1>2. r \in Run /\ Fits(r) /\ r.at = "pack" /\ NextStep(doc) = "final"
  BY <1>1, OwnLocals DEF Pack, At, Fits
<1>3. /\ PackageInv /\ doc.candidate \in 1 .. MaxCandidates
      /\ UNCHANGED <<vars, item, doc, expired, source, supplier, file, others>>
  BY DEF Pack, DInv, ShapeInv, Document
<1>4. PICK digest, q :
        /\ digest \in Digests
        /\ package' = IF Installs(digest) THEN [digest |-> digest, candidate |-> doc.candidate]
                      ELSE package
        /\ run' = [run EXCEPT ![w] = q]
        /\ q = IF Installs(digest) THEN [r EXCEPT !.at = "settle", !.digest = digest]
               ELSE Failed(r)
  BY <1>1 DEF Pack
<1>5. CASE Installs(digest)
  <2>1. package' \in Package /\ package' = [digest |-> digest, candidate |-> doc.candidate]
    BY <1>3, <1>4, <1>5 DEF Package
  <2>2. PackageKept
    <3>1. CASE package = NoPackage
      BY <1>2, <2>1, <3>1 DEF PackageKept
    <3>2. CASE package # NoPackage
      <4>1. package \in Package /\ package.digest = digest /\ package.candidate = doc.candidate
        BY <1>3, <1>5, <3>2 DEF PackageInv, Installs
      <4>2. package' = package
        BY <2>1, <4>1 DEF Package
      <4>3. QED
        BY <4>2 DEF PackageKept
    <3>3. QED
      BY <3>1, <3>2
  <2>3. Steady /\ doc'.owner \in {doc.owner, NoWorker} /\ Unposted
    BY <1>3, <2>2, SameSupplier, CallIsSteady DEF DInv, supplier, Unposted
  <2>4. /\ q \in Run /\ q.at = "settle" /\ q.n = r.n /\ q.claimed = r.claimed
        /\ q.digest = digest
    BY <1>2, <1>4, <1>5, ZenonT(60) DEF Run, Steps
  <2>5. package' # NoPackage /\ package'.digest = digest
    BY <2>1, DeliveryAssumption DEF Package
  <2>6. Fits(q)'
    BY <1>2, <1>3, <2>4, <2>5 DEF Fits, AtStage, Preparing
  <2>7. QED
    BY <1>1, <1>2, <1>4, <2>3, <2>4, <2>6, CallStep
       DEF MayPost, Works, Rests, AtStage, Preparing, Plans, BeforePost
<1>6. CASE ~Installs(digest)
  <2>1. Quiet
    BY <1>3, <1>4, <1>6, QuietThought DEF files
  <2>2. QED
    BY <1>1, <1>4, <1>6, <2>1, QuietFail DEF Fails
<1>7. QED
  BY <1>5, <1>6

-----------------------------------------------------------------------------
\* Updates after which the document stands elsewhere: a new marker, an attempt at its
\* end, the next candidate.  Only the owner of the lease makes them.
Advances(w, d) ==
  /\ Owns(w) /\ Rests(run[w]) /\ NextStep(doc) # "final"
  /\ doc' = d /\ run' = [run EXCEPT ![w] = Going(run[w], d)]
  /\ UNCHANGED <<vars, item, expired, source, supplier, files, others>>
  /\ Len(doc.attempts) <= Len(d.attempts) /\ Len(d.attempts) <= SequenceBound
  /\ d.owner = doc.owner /\ d.final = doc.final /\ d.status \in {"running", doc.status}
  /\ \A n \in 1 .. Len(doc.attempts) : d.attempts[n].stage = doc.attempts[n].stage
  /\ \A n \in 1 .. Len(d.attempts) :
       n > run[w].claimed /\ d.attempts[n].status \in Unresolved =>
         n = Target(d) /\ n > Len(doc.attempts)

LEMMA SameStanding ==
  ASSUME NEW d, doc' = d, job' = job
  PROVE  NextStep(doc)' = NextStep(d) /\ Target(doc)' = Target(d)
<1>1. NextStep(doc)' = NextStep(d)
  BY DEF NextStep, IsAccepted
<1>2. QED
  BY <1>1 DEF Target

LEMMA AdvanceStep ==
  ASSUME DInv, NEW w \in Workers, NEW d \in Document, Advances(w, d),
         CourseInv', Hopeless => Hopeless'
  PROVE  DInv'
<1>1. PICK r : r = run[w]
  OBVIOUS
<1>2. PICK q : q = Going(r, d)
  OBVIOUS
<1>3. /\ r \in Run /\ Fits(r) /\ Rests(r) /\ doc.owner = w /\ NextStep(doc) # "final"
      /\ r.claimed \in Nat
  BY <1>1, OwnLocals DEF Advances, Owns
<1>4. /\ doc' = d /\ run' = [run EXCEPT ![w] = q]
      /\ tasks' = tasks /\ job' = job /\ posts' = posts /\ file' = file /\ package' = package
      /\ reviewed' = reviewed /\ RestInv'
  BY <1>1, <1>2 DEF Advances, vars, supplier, files, others, DInv, RestInv
<1>5. /\ ShapeInv /\ CourseInv /\ LocalsInv /\ LeaseInv /\ MarkerInv /\ PackageInv /\ BillsInv
      /\ Len(doc.attempts) \in Nat /\ Len(d.attempts) \in Nat
  BY AttemptIsSequence, OfShape DEF DInv
<1>6. /\ Len(doc.attempts) <= Len(d.attempts) /\ Len(d.attempts) <= SequenceBound
      /\ d.owner = w /\ d.final = doc.final /\ d.status \in {"running", doc.status}
  BY <1>3 DEF Advances
<1>7. /\ q \in Run /\ q.at = NextStep(d) /\ q.at \in Plans
      /\ q.claimed = r.claimed /\ q.n = Target(d)
  BY <1>2, <1>3, <1>6, GoingSays
<1>8. run' \in [Workers -> Run] /\ run'[w] = q /\ \A v \in Workers \ {w} : run'[v] = run[v]
  BY <1>4, <1>7, OneRuns
<1>9. PlanFacts(d) /\ NextStep(doc)' = NextStep(d) /\ Target(doc)' = Target(d)
  BY <1>4, PlanMeans, SameStanding
<1>10. package = NoPackage
  BY <1>3, <1>5 DEF PackageInv
<1>11. ShapeInv'
  BY <1>4, <1>5, <1>6 DEF ShapeInv
<1>12. LocalsInv'
  <2>1. Fits(run[w])'
    <3>1. q.n \in 0 .. Len(d.attempts) /\ (q.at = "check" => q.n >= 1)
      BY <1>7, <1>9 DEF PlanFacts
    <3>2. r.claimed <= Len(d.attempts)
      BY <1>3, <1>5, <1>6 DEF Fits
    <3>3. Fits(q)'
      BY <1>4, <1>5, <1>7, <3>1, <3>2 DEF Fits, AtStage, Preparing, Plans
    <3>4. QED
      BY <1>8, <3>3
  <2>2. ASSUME NEW v \in Workers \ {w} PROVE Fits(run[v])'
    <3>1. PICK s : s = run[v]
      OBVIOUS
    <3>2. s \in Run /\ Fits(s) /\ s.n \in Nat /\ s.claimed \in Nat
      BY <3>1, OwnLocals
    <3>3. s.n <= Len(d.attempts) /\ s.claimed <= Len(d.attempts)
      BY <1>5, <1>6, <3>2 DEF Fits
    <3>4. s.at = "discard" => job[s.n] = "bad" /\ d.attempts[s.n].stage[1] # "main"
      BY <1>5, <3>2 DEF Advances, Fits, AtStage
    <3>5. s.at # "pack" /\ (s.at = "refund" => Hopeless')
      BY <1>3, <3>2 DEF Fits
    <3>6. Fits(s)'
      BY <1>4, <3>2, <3>3, <3>4, <3>5 DEF Fits
    <3>7. QED
      BY <1>8, <3>1, <3>6
  <2>3. QED
    BY <1>8, <2>1, <2>2 DEF LocalsInv
<1>13. LeaseInv'
  <2>1. \A v \in Workers \ {w} : run[v].n <= r.claimed
    BY <1>1, <1>3, <1>5 DEF LeaseInv, Works
  <2>2. \A n \in 1 .. Len(d.attempts) :
          n > r.claimed /\ n # Target(d) => d.attempts[n].status \notin Unresolved
    BY <1>1 DEF Advances
  <2>3. Rests(q) /\ Plan(q) = NextStep(d)
    BY <1>7 DEF Rests, Plan, Plans, AtStage, Preparing
  <2>4. QED
    BY <1>4, <1>6, <1>7, <1>8, <1>9, <2>1, <2>2, <2>3 DEF LeaseInv
<1>14. MarkerInv'
  <2>1. ASSUME MayPost(q)
        PROVE  q.n > Len(doc.attempts) /\ posts[q.n] = 0 /\ job[q.n] = "none"
    <3>1. NextStep(d) = "check"
      BY <1>7, <2>1 DEF MayPost, BeforePost, Plans
    <3>2. Target(d) \in 1 .. Len(d.attempts) /\ d.attempts[Target(d)].status \in Unresolved
      BY <1>5, <1>9, <3>1 DEF PlanFacts
    <3>3. Target(d) > r.claimed
      BY <1>7, <2>1 DEF MayPost
    <3>4. Target(d) > Len(doc.attempts)
      BY <1>1, <3>2, <3>3 DEF Advances
    <3>5. Target(d) \in Sequences
      BY <1>5, <1>6, <3>2, DeliveryAssumption DEF Sequences
    <3>6. QED
      BY <1>5, <1>7, <3>4, <3>5 DEF CourseInv
  <2>2. \A v \in Workers : run[v].n \in Nat /\ run[v].n <= Len(doc.attempts)
    BY OwnLocals DEF Fits
  <2>3. q.n \in Nat
    BY <1>5, <1>7, <1>9 DEF PlanFacts
  <2>4. QED
    BY <1>4, <1>5, <1>8, <2>1, <2>2, <2>3 DEF MarkerInv
<1>15. PackageInv' /\ BillsInv'
  BY <1>4, <1>5, <1>6, <1>10 DEF PackageInv, BillsInv
<1>16. TypeOK' /\ RowsLinked'
  <2>1. [Next]_vars
    BY DEF Advances
  <2>2. QED
    BY <2>1, LedgerKept DEF DInv
<1>17. QED
  BY <1>4, <1>11, <1>12, <1>13, <1>14, <1>15, <1>16 DEF DInv

\* Attempts may come to their end as their jobs did, and the candidate may change.
LEMMA ProgressStep ==
  ASSUME DInv, NEW w \in Workers, NEW d \in Document, NEW allowed \in BOOLEAN,
         allowed => Owns(w), Progress(w, allowed, d),
         Rests(run[w]), Plan(run[w]) # "final",
         d.owner = doc.owner, d.final = doc.final, d.status \in {"running", doc.status},
         Len(d.attempts) = Len(doc.attempts),
         \A n \in 1 .. Len(doc.attempts) :
           /\ d.attempts[n].stage = doc.attempts[n].stage
           /\ \/ n # run[w].n /\ d.attempts[n].status = doc.attempts[n].status
              \/ d.attempts[n].status = "succeeded" /\ job[n] \in Usable
              \/ d.attempts[n].status = "failed" /\ IsDead(n)
  PROVE  DInv'
<1>1. \/ DInv'
      \/ /\ Owns(w) /\ doc' = d /\ run' = [run EXCEPT ![w] = Going(run[w], d)]
         /\ UNCHANGED <<vars, item, expired, source, supplier, files, others>>
  BY UpdateCases DEF Progress
<1>2. CASE DInv'
  BY <1>2
<1>3. CASE /\ Owns(w) /\ doc' = d /\ run' = [run EXCEPT ![w] = Going(run[w], d)]
           /\ UNCHANGED <<vars, item, expired, source, supplier, files, others>>
  <2>1. /\ ShapeInv /\ CourseInv /\ Len(doc.attempts) \in Nat /\ Len(doc.attempts) <= SequenceBound
        /\ job' = job /\ posts' = posts /\ file' = file /\ doc.owner = w
    BY <1>3, AttemptIsSequence DEF DInv, ShapeInv, Owns, supplier, files
  <2>2. \A n \in 1 .. Len(doc.attempts) : n > run[w].claimed => d.attempts[n].status \notin Unresolved
    BY <2>1 DEF DInv, LeaseInv, Works, Unresolved
  <2>3. NextStep(doc) # "final"
    BY <1>3, OwnerKnows
  <2>4. Advances(w, d)
    BY <1>3, <2>1, <2>2, <2>3 DEF Advances
  <2>5. \A stage : Of(d, stage) = Of(doc, stage)
    BY DEF Of
  <2>6. \A n \in 1 .. Len(doc.attempts) : IsDead(n)' <=> IsDead(n)
    BY <1>3, <2>1 DEF IsDead
  <2>7. CourseInv'
    <3>1. \A n \in 1 .. Len(d.attempts) :
            /\ d.attempts[n].status = "succeeded" => job[n] \in Usable
            /\ d.attempts[n].status = "failed" => IsDead(n)'
      BY <2>1, <2>6 DEF CourseInv
    <3>2. \A m, n \in 1 .. Len(d.attempts) :
            m < n /\ d.attempts[m].stage = d.attempts[n].stage => IsDead(m)'
      BY <2>1, <2>6 DEF CourseInv
    <3>3. QED
      BY <1>3, <2>1, <2>5, <3>1, <3>2 DEF CourseInv
  <2>8. Hopeless => Hopeless'
    <3>1. \A stage : Of(doc, stage) \subseteq 1 .. Len(doc.attempts)
      BY DEF Of
    <3>2. QED
      BY <1>3, <2>1, <2>5, <2>6, <3>1 DEF Hopeless
  <2>9. QED
    BY <2>4, <2>7, <2>8, AdvanceStep
<1>4. QED
  BY <1>1, <1>2, <1>3

LEMMA FinishedSays ==
  ASSUME DInv, NEW n \in 1 .. Len(doc.attempts), NEW status \in {"succeeded", "failed"}
  PROVE  LET d == Finished(n, status) IN
         /\ d \in Document /\ d.owner = doc.owner /\ d.final = doc.final
         /\ d.status = doc.status /\ Len(d.attempts) = Len(doc.attempts)
         /\ \A m \in 1 .. Len(doc.attempts) :
              /\ d.attempts[m].stage = doc.attempts[m].stage
              /\ d.attempts[m].status = IF m = n THEN status ELSE doc.attempts[m].status
<1>1. doc \in Document /\ doc.attempts \in Seq(StageAttempt) /\ doc.attempts[n] \in StageAttempt
  BY AttemptIsSequence DEF DInv, ShapeInv, Document
<1>2. PICK a : a = [doc.attempts[n] EXCEPT !.status = status, !.receipt = FALSE]
  OBVIOUS
<1>3. a \in StageAttempt /\ a.stage = doc.attempts[n].stage /\ a.status = status
  <2>1. PICK b \in BOOLEAN : a = [doc.attempts[n] EXCEPT !.status = status, !.receipt = b]
    BY <1>2
  <2>2. QED
    BY <1>1, <2>1 DEF StageAttempt
<1>4. PICK s : s = [doc.attempts EXCEPT ![n] = a]
  OBVIOUS
<1>5. /\ s \in Seq(StageAttempt) /\ Len(s) = Len(doc.attempts) /\ s[n] = a
      /\ \A m \in 1 .. Len(doc.attempts) : m # n => s[m] = doc.attempts[m]
  BY <1>1, <1>3, <1>4
<1>6. Finished(n, status) = [doc EXCEPT !.attempts = s]
  BY <1>1, <1>2, <1>4 DEF Finished
<1>7. PICK d : d = Finished(n, status)
  OBVIOUS
<1>8. /\ d \in Document /\ d.owner = doc.owner /\ d.final = doc.final
      /\ d.status = doc.status /\ d.attempts = s
  BY <1>1, <1>5, <1>6, <1>7 DEF Document
<1>9. \A m \in 1 .. Len(doc.attempts) :
        /\ s[m].stage = doc.attempts[m].stage
        /\ s[m].status = IF m = n THEN status ELSE doc.attempts[m].status
  BY <1>3, <1>5
<1>10. QED
  BY <1>5, <1>7, <1>8, <1>9

LEMMA RecordStep ==
  ASSUME DInv, NEW w \in Workers, Record(w) \/ Fail(w)
  PROVE  DInv'
<1>1. PICK r : r = run[w]
  OBVIOUS
<1>2. PICK n : n = r.n
  OBVIOUS
<1>3. r \in Run /\ Fits(r) /\ r.at \in {"record", "fail", "discard"}
  BY <1>1, OwnLocals DEF Record, Fail, At
<1>4. n \in 1 .. Len(doc.attempts) /\ doc \in Document
  BY <1>1, <1>2, <1>3, AtAttempt DEF AtStage, DInv, ShapeInv
<1>5. Rests(r) /\ Plan(r) # "final"
  BY <1>3 DEF Rests, Plan, AtStage, Preparing
<1>6. CASE Record(w)
  <2>1. PICK f : f = Finished(n, "succeeded")
    OBVIOUS
  <2>2. /\ f \in Document /\ f.owner = doc.owner /\ f.final = doc.final
        /\ Len(f.attempts) = Len(doc.attempts)
        /\ \A m \in 1 .. Len(doc.attempts) :
             /\ f.attempts[m].stage = doc.attempts[m].stage
             /\ f.attempts[m].status = IF m = n THEN "succeeded" ELSE doc.attempts[m].status
    BY <1>4, <2>1, FinishedSays
  <2>3. PICK d : d = [f EXCEPT !.status = "running"]
    OBVIOUS
  <2>4. /\ d \in Document /\ d.owner = doc.owner /\ d.final = doc.final /\ d.status = "running"
        /\ d.attempts = f.attempts
    BY <2>2, <2>3 DEF Document
  <2>5. Progress(w, MayGoOn(w), d) /\ job[n] \in Usable
    BY <1>1, <1>2, <1>3, <1>6, <2>1, <2>3 DEF Record, At, Fits
  <2>6. PICK allowed \in BOOLEAN : allowed = MayGoOn(w)
    BY DEF MayGoOn
  <2>7. QED
    BY <1>1, <1>2, <1>5, <2>2, <2>4, <2>5, <2>6, ProgressStep, ZenonT(60) DEF MayGoOn
<1>7. CASE Fail(w)
  <2>1. PICK d : d = Finished(n, "failed")
    OBVIOUS
  <2>2. /\ d \in Document /\ d.owner = doc.owner /\ d.final = doc.final /\ d.status = doc.status
        /\ Len(d.attempts) = Len(doc.attempts)
        /\ \A m \in 1 .. Len(doc.attempts) :
             /\ d.attempts[m].stage = doc.attempts[m].stage
             /\ d.attempts[m].status = IF m = n THEN "failed" ELSE doc.attempts[m].status
    BY <1>4, <2>1, FinishedSays
  <2>3. PICK allowed \in BOOLEAN :
           /\ allowed = IF At(w, "fail") THEN Owns(w) /\ Authorized ELSE MayGoOn(w)
           /\ allowed => Owns(w)
    BY DEF MayGoOn
  <2>4. Progress(w, allowed, d)
    BY <1>1, <1>2, <1>7, <2>1, <2>3 DEF Fail
  <2>5. IsDead(n)
    BY <1>1, <1>2, <1>3, <1>7 DEF Fail, At, Fits, IsDead
  <2>6. QED
    BY <1>1, <1>2, <1>5, <2>2, <2>3, <2>4, <2>5, ProgressStep
<1>8. QED
  BY <1>6, <1>7

LEMMA TurnStep ==
  ASSUME DInv, NEW w \in Workers, Turn(w)
  PROVE  DInv'
<1>1. /\ run[w].at = "turn" /\ Progress(w, MayGoOn(w), [doc EXCEPT !.candidate = @ + 1])
      /\ doc \in Document
  BY DEF Turn, At, DInv, ShapeInv
<1>2. Rests(run[w]) /\ Plan(run[w]) = "turn"
  BY <1>1 DEF Rests, Plan, Plans, AtStage, Preparing
<1>3. CASE MayGoOn(w)
  <2>1. Owns(w) /\ NextStep(doc) = "turn" /\ run[w].n = Target(doc)
    BY <1>2, <1>3, OwnerKnows DEF MayGoOn
  <2>2. doc.candidate < MaxCandidates /\ run[w].n = 0
    BY <1>1, <2>1, PlanMeans DEF PlanFacts
  <2>3. PICK d : d = [doc EXCEPT !.candidate = doc.candidate + 1]
    OBVIOUS
  <2>4. doc.candidate + 1 \in 1 .. MaxCandidates
    BY <1>1, <2>2, DeliveryAssumption DEF Document
  <2>5. /\ d \in Document /\ d.owner = doc.owner /\ d.final = doc.final /\ d.status = doc.status
        /\ d.attempts = doc.attempts
    BY <1>1, <2>3, <2>4 DEF Document
  <2>6. PICK allowed \in BOOLEAN : allowed = MayGoOn(w)
    BY <1>3
  <2>7. Progress(w, allowed, d)
    BY <1>1, <2>3, <2>6
  <2>8. QED
    BY <1>2, <2>1, <2>2, <2>5, <2>7, ProgressStep
<1>4. CASE ~MayGoOn(w)
  <2>1. Fails(w) /\ UNCHANGED <<vars, item, doc, expired, source, supplier, files, others>>
    BY <1>1, <1>4 DEF Progress, Update
  <2>2. QED
    BY <2>1, QuietThought, QuietFail
<1>5. QED
  BY <1>3, <1>4

\* A document with a new marker.
Marked(d) == [d EXCEPT !.attempts = Append(@,
                [stage |-> Current(d), status |-> "submitted", receipt |-> FALSE]),
                       !.status = "running"]

LEMMA MarkedSays ==
  ASSUME NEW d \in Document, NextStep(d) = "mark", NEW e, e = Marked(d)
  PROVE  LET n == Len(d.attempts) + 1  c == Current(d) IN
         /\ e \in Document /\ e.candidate = d.candidate /\ e.owner = d.owner /\ e.final = d.final
         /\ e.status = "running" /\ Len(e.attempts) = n /\ c \in Stages
         /\ e.attempts[n].stage = c /\ e.attempts[n].status = "submitted"
         /\ \A m \in 1 .. Len(d.attempts) : e.attempts[m] = d.attempts[m]
         /\ Of(e, c) = Of(d, c) \cup {n} /\ n \notin Of(d, c)
         /\ \A stage : stage # c => Of(e, stage) = Of(d, stage)
         /\ NextStep(e) = "check" /\ Target(e) = n
<1>1. PICK L \in Nat : L = Len(d.attempts)
  BY OfShape
<1>2. PICK c : c = Current(d)
  OBVIOUS
<1>3. PlanFacts(d) /\ c \in Stages /\ ~IsDone(d, c) /\ ToDo(d) # {}
  <2>1. PlanFacts(d) /\ c \in Stages /\ ~IsDone(d, c)
    BY <1>2, PlanMeans DEF PlanFacts
  <2>2. ToDo(d) # {}
    BY DEF NextStep
  <2>3. QED
    BY <2>1, <2>2
<1>4. PICK a \in StageAttempt : /\ a = [stage |-> c, status |-> "submitted", receipt |-> FALSE]
                                /\ a.stage = c /\ a.status = "submitted"
  <2>1. PICK unread \in BOOLEAN : unread = FALSE
    OBVIOUS
  <2>2. PICK a : a = [stage |-> c, status |-> "submitted", receipt |-> unread]
    OBVIOUS
  <2>3. a \in StageAttempt /\ a.stage = c /\ a.status = "submitted"
    BY <1>3, <2>2 DEF StageAttempt
  <2>4. QED
    BY <2>1, <2>2, <2>3
<1>5. PICK s : s = Append(d.attempts, a)
  OBVIOUS
<1>6. /\ s \in Seq(StageAttempt) /\ Len(s) = L + 1 /\ s[L + 1] = a
      /\ \A m \in 1 .. L : s[m] = d.attempts[m]
  <2>1. d.attempts \in Seq(StageAttempt)
    BY DEF Document
  <2>2. QED
    BY <1>1, <1>4, <1>5, <2>1
<1>7. e = [d EXCEPT !.attempts = s, !.status = "running"]
  BY <1>2, <1>4, <1>5 DEF Marked
<1>8. /\ e \in Document /\ e.candidate = d.candidate /\ e.owner = d.owner /\ e.final = d.final
      /\ e.status = "running" /\ e.attempts = s
  BY <1>6, <1>7 DEF Document
<1>9. \A stage : /\ Of(d, stage) = {n \in 1 .. L : d.attempts[n].stage = stage}
                 /\ Of(e, stage) = {n \in 1 .. L + 1 : s[n].stage = stage}
  BY <1>1, <1>6, <1>8 DEF Of
<1>10. Of(e, c) = Of(d, c) \cup {L + 1} /\ L + 1 \notin Of(d, c)
  BY <1>1, <1>4, <1>6, <1>9
<1>11. ASSUME NEW stage, stage # c PROVE Of(e, stage) = Of(d, stage)
  <2>1. \A n : n \in 1 .. L + 1 /\ s[n].stage = stage <=>
                 n \in 1 .. L /\ d.attempts[n].stage = stage
    BY <1>1, <1>4, <1>6, <1>11
  <2>2. QED
    BY <1>9, <2>1
<1>12. LastIn(Of(e, c)) = L + 1
  <2>1. Of(e, c) \in SUBSET (1 .. L + 1) /\ Of(e, c) # {} /\ L + 1 \in Nat
    BY <1>1, <1>9, <1>10
  <2>2. LastIn(Of(e, c)) \in Of(e, c) /\ \A n \in Of(e, c) : n <= LastIn(Of(e, c))
    BY <2>1, LastIsLast
  <2>3. LastIn(Of(e, c)) \in 1 .. L + 1 /\ L + 1 <= LastIn(Of(e, c))
    BY <1>10, <2>1, <2>2
  <2>4. QED
    BY <1>1, <2>3
<1>13. ~IsDone(e, c)
  BY <1>4, <1>6, <1>8, <1>12 DEF IsDone
<1>14. \A stage : IsDone(e, stage) = IsDone(d, stage)
  <2>1. ASSUME NEW stage, stage # c PROVE IsDone(e, stage) = IsDone(d, stage)
    <3>1. Of(d, stage) # {} => LastIn(Of(d, stage)) \in 1 .. L
      BY <1>1, OfShape
    <3>2. Of(e, stage) = Of(d, stage)
      BY <1>11, <2>1
    <3>3. QED
      BY <1>6, <1>8, <3>1, <3>2 DEF IsDone
  <2>2. IsDone(e, c) = FALSE /\ IsDone(d, c) = FALSE
    BY <1>3, <1>13 DEF IsDone
  <2>3. QED
    BY <2>1, <2>2
<1>15. ToDo(e) = ToDo(d) /\ Current(e) = c
  <2>1. Course(e) = Course(d)
    BY <1>8 DEF Course
  <2>2. ToDo(e) = ToDo(d)
    BY <1>14, <2>1 DEF ToDo
  <2>3. QED
    BY <1>2, <2>1, <2>2 DEF Current
<1>16. NextStep(e) = "check" /\ Target(e) = L + 1
  <2>1. NextStep(e) = "check"
    <3>1. Of(e, Current(e)) # {} /\ e.attempts[LastIn(Of(e, Current(e)))].status = "submitted"
      BY <1>4, <1>6, <1>8, <1>10, <1>12, <1>15
    <3>2. QED
      BY <1>3, <1>15, <3>1 DEF NextStep, IsOver
  <2>2. QED
    BY <1>12, <1>15, <2>1 DEF Target
<1>17. QED
  BY <1>1, <1>2, <1>3, <1>4, <1>6, <1>8, <1>10, <1>11, <1>16

\* The supplier's earlier job of the stage is dead, and one call is left.
LEMMA MarkStep ==
  ASSUME DInv, NEW w \in Workers, Mark(w)
  PROVE  DInv'
<1>1. PICK d : d = Marked(doc)
  OBVIOUS
<1>2. PICK n : n = Len(doc.attempts) + 1
  OBVIOUS
<1>3. PICK c : c = Current(doc)
  OBVIOUS
<1>4. /\ run[w].at = "mark" /\ n \in Sequences
      /\ Update(w, MayGoOn(w), d, Going(run[w], d))
  BY <1>1, <1>2 DEF Mark, At, Marked
<1>5. CASE ~MayGoOn(w)
  <2>1. Fails(w) /\ UNCHANGED <<vars, item, doc, expired, source, supplier, files, others>>
    BY <1>4, <1>5 DEF Update
  <2>2. QED
    BY <2>1, QuietThought, QuietFail
<1>6. CASE MayGoOn(w)
  <2>1. /\ ShapeInv /\ CourseInv /\ doc \in Document /\ Len(doc.attempts) \in Nat
        /\ SequenceBound \in Nat
    BY AttemptIsSequence DEF DInv, ShapeInv
  <2>2. /\ doc' = d /\ run' = [run EXCEPT ![w] = Going(run[w], d)]
        /\ UNCHANGED <<vars, item, expired, source, supplier, files, others>>
    BY <1>4, <1>6 DEF Update
  <2>3. job' = job /\ posts' = posts /\ file' = file
    BY <2>2 DEF supplier, files
  <2>4. Owns(w) /\ Rests(run[w]) /\ NextStep(doc) = "mark" /\ run[w].n = Target(doc)
    BY <1>4, <1>6, OwnerKnows DEF MayGoOn, Rests, Plan, Plans, AtStage, Preparing
  <2>5. PlanFacts(doc) /\ run[w].n = 0
    BY <2>1, <2>4, PlanMeans DEF PlanFacts
  <2>6. /\ d \in Document /\ d.owner = doc.owner /\ d.final = doc.final
        /\ d.status = "running" /\ Len(d.attempts) = n /\ c \in Stages
        /\ d.attempts[n].stage = c /\ d.attempts[n].status = "submitted"
        /\ \A m \in 1 .. Len(doc.attempts) : d.attempts[m] = doc.attempts[m]
        /\ Of(d, c) = Of(doc, c) \cup {n} /\ n \notin Of(doc, c)
        /\ \A stage : stage # c => Of(d, stage) = Of(doc, stage)
        /\ Target(d) = n
    BY <1>1, <1>2, <1>3, <2>1, <2>4, MarkedSays
  <2>7. Advances(w, d)
    <3>1. n <= SequenceBound /\ n \in Nat
      BY <1>4, <2>1 DEF Sequences
    <3>2. \A m \in 1 .. Len(doc.attempts) :
            m > run[w].claimed => doc.attempts[m].status \notin Unresolved
      BY <2>4, <2>5 DEF DInv, LeaseInv, Owns, Works
    <3>3. QED
      BY <1>2, <2>1, <2>2, <2>4, <2>6, <3>1, <3>2 DEF Advances
  <2>8. /\ IsFiniteSet(Of(doc, c)) /\ Cardinality(Of(doc, c)) \in Nat
        /\ Cardinality(Of(doc, c)) < MaxStageAttempts
        /\ \A m \in Of(doc, c) : m \in 1 .. Len(doc.attempts) /\ IsDead(m)
    <3>1. /\ IsFiniteSet(Of(doc, c)) /\ Cardinality(Of(doc, c)) \in Nat
          /\ Of(doc, c) \in SUBSET (1 .. Len(doc.attempts))
      BY <2>1, OfShape
    <3>2. CASE Of(doc, c) = {}
      BY <3>1, <3>2, FS_EmptySet, DeliveryAssumption
    <3>3. CASE Of(doc, c) # {}
      <4>1. PICK last : last = LastIn(Of(doc, c))
        OBVIOUS
      <4>2. last \in Of(doc, c) /\ \A m \in Of(doc, c) : m <= last
        BY <2>1, <3>3, <4>1, OfShape
      <4>3. doc.attempts[last].status = "failed" /\ Cardinality(Of(doc, c)) < MaxStageAttempts
        BY <1>3, <2>4, <2>5, <3>3, <4>1 DEF PlanFacts
      <4>4. ASSUME NEW m \in Of(doc, c) PROVE IsDead(m)
        <5>1. CASE m = last
          BY <2>1, <3>1, <4>2, <4>3, <5>1 DEF CourseInv
        <5>2. CASE m < last
          BY <2>1, <3>1, <4>2, <5>2 DEF CourseInv, Of
        <5>3. QED
          BY <2>1, <3>1, <4>2, <5>1, <5>2
      <4>5. QED
        BY <3>1, <4>3, <4>4
    <3>4. QED
      BY <3>2, <3>3
  <2>9. \A m \in 1 .. Len(doc.attempts) : IsDead(m)' <=> IsDead(m)
    BY <2>2, <2>3, <2>6 DEF IsDead
  <2>10. Cardinality(Of(d, c)) = Cardinality(Of(doc, c)) + 1
    BY <2>6, <2>8, FS_AddElement, ZenonT(60)
  <2>11. CourseInv'
    <3>1. \A m \in 1 .. Len(d.attempts) :
            /\ d.attempts[m].status = "succeeded" => job[m] \in Usable
            /\ d.attempts[m].status = "failed" => IsDead(m)'
      BY <1>2, <2>1, <2>6, <2>9 DEF CourseInv
    <3>2. ASSUME NEW l \in 1 .. Len(d.attempts), NEW m \in 1 .. Len(d.attempts),
                 l < m, d.attempts[l].stage = d.attempts[m].stage
          PROVE  IsDead(l)'
      <4>1. l \in 1 .. Len(doc.attempts)
        BY <1>2, <2>1, <2>6, <3>2
      <4>2. CASE m = n
        BY <2>6, <2>8, <2>9, <3>2, <4>1, <4>2 DEF Of
      <4>3. CASE m # n
        <5>1. m \in 1 .. Len(doc.attempts)
          BY <1>2, <2>1, <2>6, <4>3
        <5>2. doc.attempts[l].stage = doc.attempts[m].stage
          BY <2>6, <3>2, <4>1, <5>1
        <5>3. IsDead(l)
          BY <2>1, <3>2, <4>1, <5>1, <5>2 DEF CourseInv
        <5>4. QED
          BY <2>9, <4>1, <5>3
      <4>4. QED
        BY <4>2, <4>3
    <3>3. ASSUME NEW stage \in Stages PROVE Cardinality(Of(d, stage)) <= MaxStageAttempts
      <4>1. CASE stage = c
        BY <2>8, <2>10, <4>1, DeliveryAssumption
      <4>2. CASE stage # c
        <5>1. Of(d, stage) = Of(doc, stage)
          BY <2>6, <4>2
        <5>2. QED
          BY <2>1, <5>1 DEF CourseInv
      <4>3. QED
        BY <4>1, <4>2
    <3>4. \A m \in Sequences : /\ file[m] = "proof" => job[m] \in Answered
                               /\ file[m] = "result" => job[m] \in Usable
                               /\ m > Len(d.attempts) =>
                                    posts[m] = 0 /\ job[m] = "none" /\ file[m] = "none"
      BY <1>2, <2>1, <2>6 DEF CourseInv, Sequences
    <3>5. QED
      BY <2>2, <2>3, <3>1, <3>2, <3>3, <3>4 DEF CourseInv
  <2>12. ASSUME Hopeless PROVE Hopeless'
    <3>1. CASE \E stage \in Stages : /\ Cardinality(Of(doc, stage)) = MaxStageAttempts
                                     /\ \A m \in Of(doc, stage) : IsDead(m)
      <4>1. PICK stage \in Stages : /\ Cardinality(Of(doc, stage)) = MaxStageAttempts
                                    /\ \A m \in Of(doc, stage) : IsDead(m)
        BY <3>1
      <4>2. stage # c
        BY <2>8, <4>1, DeliveryAssumption
      <4>3. Of(d, stage) = Of(doc, stage) /\ Of(doc, stage) \subseteq 1 .. Len(doc.attempts)
        BY <2>6, <4>2 DEF Of
      <4>4. QED
        BY <2>2, <2>9, <4>1, <4>3 DEF Hopeless
    <3>2. CASE \E m \in Of(doc, <<"review", MaxCandidates>>) : job[m] = "rejected"
      <4>1. Of(doc, <<"review", MaxCandidates>>) \subseteq Of(d, <<"review", MaxCandidates>>)
        BY <2>6
      <4>2. QED
        BY <2>2, <2>3, <3>2, <4>1 DEF Hopeless
    <3>3. QED
      BY <2>12, <3>1, <3>2 DEF Hopeless
  <2>13. QED
    BY <2>6, <2>7, <2>11, <2>12, AdvanceStep
<1>7. QED
  BY <1>5, <1>6

-----------------------------------------------------------------------------
\* A wallet with its points, one price per capability, no task and no attempt.
LEMMA DeliveryStarts ==
  ASSUME DInit
  PROVE  DInv
<1>1. NoTask \in Task /\ \A e \in EntryKeys : entries[e] \in Entry
  <2>1. NoTask \in Task /\ NoEntry \in Entry
    BY LimitAssumption DEF NoTask, Task, NoEntry, Entry, Points
  <2>2. [kind |-> "recharge", available |-> MaxPoints, frozen |-> 0] \in Entry
    BY LimitAssumption DEF Entry
  <2>3. ASSUME NEW e \in EntryKeys
        PROVE  entries[e] \in {NoEntry, Line("recharge", MaxPoints, 0)}
    BY DEF DInit, Line
  <2>4. QED
    BY <2>1, <2>2, <2>3 DEF Line
<1>2. account \in Account
  <2>1. PICK optedIn \in BOOLEAN : optedIn = TRUE
    OBVIOUS
  <2>2. account = [status |-> "active", optedIn |-> optedIn, available |-> MaxPoints, frozen |-> 0]
    BY <2>1 DEF DInit
  <2>3. QED
    BY <2>2, LimitAssumption DEF Account, Points
<1>3. prices \subseteq Price
  BY DeliveryAssumption DEF DInit, Price
<1>4. TypeOK /\ RowsLinked
  <2>1. entries \in [EntryKeys -> Entry]
    BY <1>1 DEF DInit
  <2>2. QED
    BY <1>1, <1>2, <1>3, <2>1 DEF DInit, TypeOK, RowsLinked, NoTask
<1>5. PICK d : d = doc
  OBVIOUS
<1>6. /\ d \in Document /\ Len(d.attempts) = 0 /\ d.attempts = << >>
      /\ d.owner = NoWorker /\ d.status = "none" /\ \A stage : Of(d, stage) = {}
  <2>1. FALSE \in BOOLEAN /\ << >> \in Seq(StageAttempt) /\ Len(<< >>) = 0
    OBVIOUS
  <2>2. PICK reconcile \in BOOLEAN, none \in Seq(StageAttempt) :
          reconcile = FALSE /\ none = << >> /\ Len(none) = 0
    BY <2>1
  <2>3. d = [status |-> "none", candidate |-> 1, attempts |-> none, owner |-> NoWorker,
             reconcile |-> reconcile, final |-> NoDigest]
    BY <1>5, <2>2 DEF DInit
  <2>4. d \in Document
    BY <2>3, DeliveryAssumption DEF Document
  <2>5. QED
    BY <2>2, <2>3, <2>4 DEF Of
<1>7. ShapeInv
  BY <1>5, <1>6, DeliveryAssumption DEF DInit, ShapeInv, JobStates
<1>8. CourseInv
  <2>1. \A stage : Cardinality(Of(d, stage)) = 0
    BY <1>6, FS_EmptySet
  <2>2. \A n \in Sequences : file[n] = "none" /\ posts[n] = 0 /\ job[n] = "none"
    BY DEF DInit
  <2>3. \A stage \in Stages : Cardinality(Of(doc, stage)) <= MaxStageAttempts
    BY <1>5, <2>1, DeliveryAssumption
  <2>4. 1 .. Len(doc.attempts) = {}
    BY <1>5, <1>6
  <2>5. QED
    BY <2>2, <2>3, <2>4 DEF CourseInv
<1>9. \A w \in Workers : run[w] = Idle
  BY DEF DInit
<1>10. /\ Idle \in Run /\ Idle.at = "idle" /\ Idle.n = 0 /\ Idle.claimed = 0
  BY DeliveryAssumption DEF Idle, Run, Steps, Open, Final
<1>11. run \in [Workers -> Run]
  BY <1>10 DEF DInit
<1>12. Fits(Idle)
  BY <1>5, <1>6, <1>10 DEF Fits, AtStage, Preparing
<1>13. LocalsInv
  BY <1>9, <1>11, <1>12 DEF LocalsInv
<1>14. LeaseInv /\ MarkerInv
  BY <1>5, <1>6, <1>9, <1>10, DeliveryAssumption
     DEF LeaseInv, MarkerInv, MayPost, BeforePost
<1>15. PackageInv
  BY DEF DInit, PackageInv
<1>16. BillsInv
  BY <1>5, <1>6, KeyIsRow DEF DInit, BillsInv, NoTask
<1>17. RestInv
  <2>1. /\ item = "queued" /\ expired \in BOOLEAN /\ source \in BOOLEAN /\ reviewed \in BOOLEAN
        /\ faults = 0
    BY DEF DInit
  <2>2. QED
    BY <2>1, DeliveryAssumption DEF RestInv
<1>18. QED
  BY <1>4, <1>7, <1>8, <1>13, <1>14, <1>15, <1>16, <1>17 DEF DInv

LEMMA PrepareStep ==
  ASSUME DInv, NEW w \in Workers, Prepare(w)
  PROVE  DInv'
BY ClaimStep, ReserveTaskStep, GivesUpStep, LinkStep, FindAttemptStep, KeepReceiptStep, RecoverStep
   DEF Prepare

LEMMA StageStep ==
  ASSUME DInv, NEW w \in Workers, Stage(w)
  PROVE  DInv'
BY MarkStep, CheckStep, PermitStep, SubmitStep, ReceiveStep, AnswerStep, GivesUpStep, CompleteStep,
   SaveStep, RecordStep, TurnStep DEF Stage

LEMMA ConcludeStep ==
  ASSUME DInv, NEW w \in Workers, Conclude(w)
  PROVE  DInv'
BY ReassertStep, PackStep, SettledStep, BillStep, EndStep, ReconcilesStep, DoubtStep, ReportStep,
   ClearStep DEF Conclude

\* Every step of every execution, and what people do meanwhile, keeps the invariant.
LEMMA DeliveryStep ==
  ASSUME DInv, [DNext]_dvars
  PROVE  DInv'
<1>1. CASE UNCHANGED dvars
  BY <1>1, QuietThought, QuietRest DEF dvars
<1>2. ASSUME NEW w \in Workers, Prepare(w) \/ Stage(w) \/ Conclude(w) \/ Throw(w) \/ Crash(w)
      PROVE  DInv'
  BY <1>2, PrepareStep, StageStep, ConcludeStep, ThrowStep
<1>3. CASE Expire \/ Change
  BY <1>3, ExpireStep, ChangeStep
<1>4. QED
  BY <1>1, <1>2, <1>3 DEF DNext

LEMMA DeliveryInvariant == DSpec => []DInv
<1>1. DInit => DInv
  BY DeliveryStarts
<1>2. DInv /\ [DNext]_dvars => DInv'
  BY DeliveryStep
<1>3. QED
  BY <1>1, <1>2, PTL DEF DSpec

\* Every row, document, file and local keeps its shape, however many executions meet.
THEOREM DeliveryTypeCorrect == DSpec => []DTypeOK
<1>1. DInv => DTypeOK
  <2> SUFFICES ASSUME DInv PROVE DTypeOK
    OBVIOUS
  <2>1. posts \in [Sequences -> Nat]
    BY DEF DInv, ShapeInv
  <2>2. QED
    BY <2>1 DEF DInv, ShapeInv, LocalsInv, PackageInv, RestInv, DTypeOK, JobStates
<1>2. QED
  BY <1>1, DeliveryInvariant, PTL

\* No marker is posted twice, and a second attempt of a stage follows only when the
\* supplier's first job is dead, whoever held the lease and whatever answer was lost.
THEOREM LiveJobsAreOne == DSpec => []OneLiveJob
<1>1. DInv => OneLiveJob
  BY DEF DInv, ShapeInv, CourseInv, OneLiveJob, Of
<1>2. QED
  BY <1>1, DeliveryInvariant, PTL

\* The coordinator refunds only what no call of some stage, or no image, delivered.
THEOREM RefundsAreProven == DSpec => []RefundIsProven
<1>1. DInv => RefundIsProven
  BY DEF DInv, BillsInv, RefundIsProven, Hopeless
<1>2. QED
  BY <1>1, DeliveryInvariant, PTL

\* The coordinator bills only the file on disk, with an image its review accepted.
THEOREM BillsAreDeliveries == DSpec => []BillIsTheDelivery
<1>1. DInv => BillIsTheDelivery
  <2> SUFFICES ASSUME DInv, tasks[Key].status = "succeeded", ~reviewed
               PROVE  package # NoPackage /\ package.digest = tasks[Key].result /\ IsVerified
    BY DEF BillIsTheDelivery
  <2>1. package # NoPackage /\ package.digest = tasks[Key].result
    BY DEF DInv, BillsInv
  <2>2. NextStep(doc) = "final" /\ package.candidate = doc.candidate /\ doc \in Document
    BY <2>1 DEF DInv, PackageInv, ShapeInv
  <2>3. /\ IsDone(doc, <<"main", doc.candidate>>) /\ IsDone(doc, <<"review", doc.candidate>>)
        /\ IsAccepted(doc)
    BY <2>2, PlanMeans DEF PlanFacts
  <2>4. QED
    BY <2>1, <2>2, <2>3 DEF IsVerified, IsAccepted
<1>2. QED
  BY <1>1, DeliveryInvariant, PTL

\* What the document tells the member of the end is what the bill says.
THEOREM DocumentsAgree == DSpec => []DocumentAgrees
<1>1. DInv => DocumentAgrees
  BY DEF DInv, BillsInv, DocumentAgrees
<1>2. QED
  BY <1>1, DeliveryInvariant, PTL

-----------------------------------------------------------------------------
\* Whatever an execution does, the ledger sees one of its own operations or nothing.
LEMMA CallsOfLedger ==
  ASSUME DInv, [DNext]_dvars
  PROVE  [Next]_vars
<1>1. TypeOK /\ RowsLinked
  BY DEF DInv
<1>2. CASE UNCHANGED vars
  BY <1>2
<1>3. ASSUME NEW w \in Workers, Prepare(w)
      PROVE  [Next]_vars
  <2>1. \/ UNCHANGED vars
        \/ \E request \in Request : Reserve(Key, request)
        \/ \E provider \in Providers : StartAttempt(Key, 1, provider)
        \/ \E receipt \in Receipts : RecordReceipt(Key, 1, receipt)
    BY <1>3 DEF Prepare, Claim, ReserveTask, ReserveIsRefused, Link, Update, FindAttempt,
                NoAttempt, KeepReceipt, Recover
  <2>2. QED
    BY <1>1, <2>1, OpenCalls
<1>4. ASSUME NEW w \in Workers, Stage(w)
      PROVE  UNCHANGED vars
  BY <1>4 DEF Stage, Mark, Check, Permit, Submit, Receive, Answer, Pending, Complete, Save,
              Record, Fail, Turn, Progress, Update
<1>5. ASSUME NEW w \in Workers, NEW receipt \in Receipts, Bill(w, receipt) \/ Refund(w, receipt)
      PROVE  [Next]_vars
  <2>1. CASE Bill(w, receipt)
    <3>1. PICK d : d = run[w].digest
      OBVIOUS
    <3>2. d \in Digests
      BY <2>1, <3>1, OwnLocals DEF Bill, At, Fits, DInv, PackageInv, Package
    <3>3. PICK call : call = BillCall(d, receipt) /\ call \in OutcomeCall
      BY <3>2, CallsAreOutcomes
    <3>4. RecordOutcome(Key, 1, call) \/ UNCHANGED vars
      BY <2>1, <3>1, <3>3 DEF Bill, Reports
    <3>5. QED
      BY <1>1, <3>3, <3>4, OutcomeSays
  <2>2. CASE Refund(w, receipt)
    <3>1. PICK call : call = RefundCall(receipt) /\ call \in OutcomeCall
      BY CallsAreOutcomes
    <3>2. RecordOutcome(Key, 1, call) \/ UNCHANGED vars
      BY <2>2, <3>1 DEF Refund, Reports
    <3>3. QED
      BY <1>1, <3>1, <3>2, OutcomeSays
  <2>3. QED
    BY <1>5, <2>1, <2>2
<1>6. ASSUME NEW w \in Workers, Report(w)
      PROVE  [Next]_vars
  <2>1. PICK call : call = DoubtCall /\ call \in OutcomeCall
    BY CallsAreOutcomes
  <2>2. RecordOutcome(Key, 1, call) \/ UNCHANGED vars
    BY <1>6, <2>1 DEF Report
  <2>3. QED
    BY <1>1, <2>1, <2>2, OutcomeSays
<1>7. ASSUME NEW w \in Workers, Conclude(w)
      PROVE  [Next]_vars
  <2>1. \/ UNCHANGED vars
        \/ Report(w)
        \/ \E receipt \in Receipts : Bill(w, receipt) \/ Refund(w, receipt)
    BY <1>7 DEF Conclude, Reassert, Pack, Settled, Close, Bury, Reconciles, Doubt, Clear, Update
  <2>2. QED
    BY <1>2, <1>5, <1>6, <2>1
<1>8. CASE Change
  BY <1>8, ChangeCalls
<1>9. QED
  <2>1. ASSUME NEW w \in Workers, Throw(w) \/ Crash(w) PROVE UNCHANGED vars
    BY <2>1 DEF Throw, Crash
  <2>2. Expire \/ UNCHANGED dvars => UNCHANGED vars
    BY DEF Expire, dvars
  <2>3. QED
    BY <1>2, <1>3, <1>4, <1>7, <1>8, <2>1, <2>2 DEF DNext

\* A closed bill of a delivery stands, whatever late executions report.
THEOREM DeliveryBillsStand == DSpec => BillStands
<1>1. DInv /\ [DNext]_dvars => [LeavesBills]_vars
  BY CallsOfLedger, BillsLeft DEF DInv
<1>2. QED
  BY <1>1, DeliveryInvariant, PTL DEF DSpec, BillStands

\* The books of the ledger balance under the deliveries, too.
LEMMA BooksOfDelivery == DSpec => [](BooksInv /\ BilledAsQuoted)
<1>1. DInit => BooksInv /\ BilledAsQuoted
  <2> SUFFICES ASSUME DInit
               PROVE  BooksInv /\ BilledAsQuoted
    OBVIOUS
  <2>1. TypeOK
    BY DeliveryStarts DEF DInv
  <2>2. account.available = MaxPoints /\ account.frozen = 0 /\ tasks = [k \in Keys |-> NoTask]
    BY DEF DInit
  <2>3. PICK r \in References :
          entries = [e \in EntryKeys |-> IF e = <<"recharge", r>>
                                         THEN Line("recharge", MaxPoints, 0) ELSE NoEntry]
    BY DEF DInit
  <2>4. QED
    BY <2>1, <2>2, <2>3, FundedBooks
<1>2. DInv /\ DInv' /\ BooksInv /\ BilledAsQuoted /\ [DNext]_dvars
      => BooksInv' /\ BilledAsQuoted'
  BY CallsOfLedger, BooksStep, QuoteStep DEF DInv
<1>3. QED
  BY <1>1, <1>2, DeliveryInvariant, PTL DEF DSpec

\* A delivery leaks no hold, loses no point and bills the quoted price.
THEOREM DeliveriesKeepTheBooks ==
  DSpec => [](FrozenIsHeld /\ PointsConserved /\ AuditConsistent /\ BilledAsQuoted)
BY BooksOfDelivery, PTL DEF BooksInv

\* A delivery never has a second attempt of its task under way, and a late result
\* that contradicts the bill is flagged.
THEOREM DeliveryAttemptsAreSound == DSpec => [](OneUnresolvedAttempt /\ LateResultFlagged)
<1>1. DInit => AttemptsInv
  BY DEF DInit, AttemptsInv, OneUnresolvedAttempt, OpenHasNoSuccess, LateResultFlagged
<1>2. DInv /\ DInv' /\ AttemptsInv /\ [DNext]_dvars => AttemptsInv'
  BY CallsOfLedger, AttemptsStep DEF DInv
<1>3. AttemptsInv => OneUnresolvedAttempt /\ LateResultFlagged
  BY DEF AttemptsInv
<1>4. QED
  BY <1>1, <1>2, <1>3, DeliveryInvariant, PTL DEF DSpec
=============================================================================
