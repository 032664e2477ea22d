-------------------------- MODULE ConfigStoreProofs --------------------------
(***************************************************************************)
(* Theorems about ConfigStore for any sets of handlers, command lines and  *)
(* documents.  They all rest on one inductive invariant, which says how    *)
(* far each process has got with its own call; the file itself is never    *)
(* constrained, because an administrator may put anything there.           *)
(***************************************************************************)
EXTENDS ConfigStore, TLAPS

Writing == {"create", "write", "finish", "rename"}

(* A process in the middle of a Save carries the valid document of its own *)
(* request, and from "finish" on its temporary file holds just that.       *)
ProcInv(p) ==
  /\ pc[p] = "idle" <=> call[p] = None
  /\ pc[p] \in {"read", "check"} => call[p] = Register!GetCall
  /\ pc[p] \in {"admit", "stat"} \cup Writing =>
       call[p] # Register!GetCall /\ call[p].doc = doc[p]
  /\ pc[p] = "stat" => doc[p] = DefaultConfig
  /\ pc[p] \in Writing => doc[p] \in Good
  /\ pc[p] \in {"finish", "rename"} => temp[p] = doc[p]
  /\ pc[p] \in {"cleanup", "return"} => answer[p] # None
  /\ pc[p] \notin {"idle", "cleanup", "return"} => answer[p] = None
  /\ pc[p] \in {"cleanup", "return"} /\ answer[p] = "saved" =>
       call[p].doc \in Good /\ temp[p] = NoFile

Inv == TypeOK /\ \A p \in Proc : ProcInv(p)

USE DefaultAssumption, ProcAssumption, BytesAssumption, AnswerAssumption,
    NoneAssumption

LEMMA InitInv == Init => Inv
  BY DEF Init, Inv, TypeOK, ProcInv, Writing, Steps, SaveSteps, Content,
         Register!Answers, Register!AllCalls, Register!GetCall

LEMMA StepInv == Inv /\ [Next]_vars => Inv'
<1> SUFFICES ASSUME Inv, [Next]_vars PROVE Inv'
  OBVIOUS
<1> USE DEF Inv, TypeOK, ProcInv, Writing, Steps, SaveSteps, Content, Proc,
            Register!Answers, Register!AllCalls, Register!GetCall,
            Register!InitCall, Register!PutCall, Register!Content
<1>1. ASSUME NEW p \in Proc, Request(p) PROVE Inv'
  <2>1. CASE BeginGet(p)
    BY <2>1 DEF BeginGet, Begin, Goto
  <2>2. CASE BeginPut(p)
    BY <2>2 DEF BeginPut, Begin, Goto
  <2>3. CASE BeginInit(p)
    BY <2>3 DEF BeginInit, Begin, Goto
  <2> QED BY <1>1, <2>1, <2>2, <2>3 DEF Request
<1>2. ASSUME NEW p \in Proc, LoadStep(p) PROVE Inv'
  <2>1. CASE ReadFile(p)
    BY <2>1 DEF ReadFile, Goto
  <2>2. CASE ReadFails(p)
    BY <2>2 DEF ReadFails, Fail, Goto
  <2>3. CASE Check(p)
    BY <2>3 DEF Check, Loaded, Goto
  <2> QED BY <1>2, <2>1, <2>2, <2>3 DEF LoadStep
<1>3. ASSUME NEW p \in Proc, SaveStep(p) PROVE Inv'
  <2>1. CASE Admit(p)
    BY <2>1 DEF Admit, Fail, Goto
  <2>2. CASE Stat(p)
    BY <2>2 DEF Stat, Fail, Goto
  <2>3. CASE StatFails(p)
    BY <2>3 DEF StatFails, Fail, Goto
  <2>4. CASE CreateTemp(p)
    BY <2>4 DEF CreateTemp, Goto
  <2>5. CASE CreateFails(p)
    BY <2>5 DEF CreateFails, Fail, Goto
  <2>6. CASE WriteTemp(p)
    BY <2>6 DEF WriteTemp, Goto
  <2>7. CASE FinishTemp(p)
    BY <2>7 DEF FinishTemp, Goto
  <2>8. CASE SaveFails(p)
    BY <2>8 DEF SaveFails, Fail, Goto
  <2>9. CASE Rename(p)
    BY <2>9 DEF Rename, Goto
  <2>10. CASE Cleanup(p)
    BY <2>10 DEF Cleanup, Goto
  <2> QED
    BY <1>3, <2>1, <2>2, <2>3, <2>4, <2>5, <2>6, <2>7, <2>8, <2>9, <2>10
       DEF SaveStep
<1>4. ASSUME NEW p \in Proc, Return(p) PROVE Inv'
  BY <1>4 DEF Return, Goto
<1>5. ASSUME NEW P, Kill(P) PROVE Inv'
  BY <1>5 DEF Kill
<1>6. CASE Edit
  BY <1>6 DEF Edit
<1>7. CASE UNCHANGED vars
  BY <1>7 DEF vars
<1> QED
  BY <1>1, <1>2, <1>3, <1>4, <1>5, <1>6, <1>7 DEF Next, Step
-----------------------------------------------------------------------------

(* The invariant holds in every reachable state.                           *)
THEOREM Invariance == Spec => []Inv
  BY InitInv, StepInv, PTL DEF Spec

(* Every variable keeps its type; in particular a call that returns a      *)
(* configuration returns a valid one, whatever the file holds.             *)
THEOREM TypeCorrect == Spec => []TypeOK
<1>1. Inv => TypeOK
  BY DEF Inv
<1> QED BY <1>1, Invariance, PTL

(* "saved" is answered only for a valid document, and by then the          *)
(* temporary file is gone.                                                 *)
THEOREM SavedIsStored == Spec => []SavedMeansStored
<1>1. Inv => SavedMeansStored
  BY DEF Inv, ProcInv, SavedMeansStored
<1> QED BY <1>1, Invariance, PTL

(* For any number of concurrent savers, and whatever fails or is killed,   *)
(* the program only ever replaces the file by a complete valid document.   *)
THEOREM Replacements == Spec => OnlyCompleteReplacements
<1>1. Inv /\ [Next]_vars => [file' # file /\ ~Edit => file' \in Good]_vars
  <2> SUFFICES ASSUME Inv, Next, file' # file, ~Edit PROVE file' \in Good
    OBVIOUS
  <2>1. ASSUME NEW p \in Proc, Rename(p) PROVE file' \in Good
    BY <2>1 DEF Rename, Inv, ProcInv, Writing
  <2>2. ASSUME NEW p \in Proc, Step(p), ~Rename(p) PROVE file' = file
    BY <2>2 DEF Step, LoadStep, SaveStep, ReadFile, ReadFails, Check, Admit,
       Stat, StatFails, CreateTemp, CreateFails, WriteTemp, FinishTemp,
       SaveFails, Cleanup, Return
  <2>3. ASSUME NEW p \in Proc, Request(p) PROVE file' = file
    BY <2>3 DEF Request, BeginGet, BeginPut, BeginInit, Begin
  <2>4. ASSUME NEW P, Kill(P) PROVE file' = file
    BY <2>4 DEF Kill
  <2> QED BY <2>1, <2>2, <2>3, <2>4 DEF Next
<1> QED BY <1>1, Invariance, PTL DEF Spec, OnlyCompleteReplacements

-----------------------------------------------------------------------------
(* The refinement: a Load takes effect at its read, a Save at its rename,  *)
(* a refusal where the error is returned.                                  *)

LEMMA InitMaps == Init => Register!Init
  BY DEF Init, Seen, Loaded, Register!Init, Register!Proc, Register!Content, Content, Proc

LEMMA StepMaps == Inv /\ [Next]_vars => [Register!Next]_(Register!vars)
<1> SUFFICES ASSUME Inv, [Next]_vars PROVE [Register!Next]_(Register!vars)
  OBVIOUS
<1> USE DEF Inv, TypeOK, ProcInv, Writing, Steps, SaveSteps, Content, Proc,
            Register!Proc, Register!Content, Register!vars,
            Register!GetCall, Register!InitCall, Register!PutCall
<1>1. ASSUME NEW p \in Proc, Request(p) PROVE Register!Invoke(p)
  <2>1. CASE BeginGet(p)
    BY <2>1 DEF BeginGet, Begin, Goto, Seen, Loaded, Register!Invoke, Register!Calls
  <2>2. CASE BeginPut(p)
    <3>1. PICK d \in Content : Begin(p, Register!PutCall(d), "admit")
      BY <2>2 DEF BeginPut
    <3>2. Register!PutCall(d) \in Register!Calls(p)
      BY <2>2 DEF BeginPut, Register!Calls
    <3>3. Seen' = [Seen EXCEPT ![p] = None]
      BY <3>1 DEF Begin, Goto, Seen, Loaded
    <3> QED BY <3>1, <3>2, <3>3 DEF Begin, Register!Invoke
  <2>3. CASE BeginInit(p)
    BY <2>3 DEF BeginInit, Begin, Goto, Seen, Loaded, Register!Invoke, Register!Calls
  <2> QED BY <1>1, <2>1, <2>2, <2>3 DEF Request
<1>2. ASSUME NEW p \in Proc, ReadFile(p) PROVE Register!Read(p)
  <2>1. Register!Pending(p) /\ call[p] = Register!GetCall
    BY <1>2 DEF ReadFile, Register!Pending, Seen
  <2>2. Loaded(p, file) = Register!View(p, file)
    BY DEF Loaded, Register!View
  <2>3. Seen' = [Seen EXCEPT ![p] = Loaded(p, file)]
    BY <1>2, ZenonT(40) DEF ReadFile, Goto, Seen, Loaded
  <2> QED
    BY <1>2, <2>1, <2>2, <2>3 DEF ReadFile, Register!Read, Register!Answer
<1>3. ASSUME NEW p \in Proc, Rename(p) PROVE Register!Store(p)
  BY <1>3 DEF Rename, Goto, Seen, Loaded, Register!Store,
     Register!Pending, Register!Answer
<1>4. ASSUME NEW p \in Proc,
             \/ ReadFails(p) \/ StatFails(p) \/ CreateFails(p) \/ SaveFails(p)
             \/ Admit(p) /\ doc[p] \notin Good
             \/ Stat(p) /\ file # NoFile
      PROVE  Register!Refuse(p)
  <2>1. /\ pc[p] \in {"read", "stat", "create", "write", "finish", "rename",
                       "admit"}
        /\ \E step \in {"return", "cleanup"} : Fail(p, step)
        /\ UNCHANGED <<file, doc, call>>
    BY <1>4 DEF ReadFails, StatFails, CreateFails, SaveFails, Admit, Stat,
       Fail, Goto
  <2>2. Register!Pending(p)
    BY <2>1 DEF Register!Pending, Seen
  <2>3. Seen' = [Seen EXCEPT ![p] = "error"]
    BY <2>1 DEF Fail, Goto, Seen, Loaded
  <2> QED BY <2>1, <2>2, <2>3 DEF Register!Refuse, Register!Answer
<1>5. ASSUME NEW p \in Proc,
             \/ Check(p) \/ CreateTemp(p) \/ WriteTemp(p) \/ FinishTemp(p)
             \/ Cleanup(p)
             \/ Admit(p) /\ doc[p] \in Good
             \/ Stat(p) /\ file = NoFile
      PROVE  UNCHANGED Register!vars
  BY <1>5 DEF Check, CreateTemp, WriteTemp, FinishTemp, Cleanup, Admit, Stat,
     Goto, Seen, Loaded
<1>6. ASSUME NEW p \in Proc, Return(p) PROVE Register!Return(p)
  BY <1>6 DEF Return, Goto, Seen, Loaded, Register!Return
<1>7. ASSUME NEW P, Kill(P) PROVE Register!Forget(P)
  BY <1>7 DEF Kill, Seen, Loaded, Register!Forget
<1>8. CASE Edit
  BY <1>8 DEF Edit, Seen, Loaded, Register!Edit, Register!Next
<1>9. CASE UNCHANGED vars
  BY <1>9 DEF vars, Seen, Loaded
<1>10. ASSUME NEW p \in Proc, Step(p) PROVE [Register!Next]_(Register!vars)
  BY <1>10, <1>2, <1>3, <1>4, <1>5, <1>6
     DEF Step, LoadStep, SaveStep, Register!Next, Admit, Stat
<1> QED
  BY <1>1, <1>7, <1>8, <1>9, <1>10 DEF Next, Register!Next

(* The system calls on the file implement the register: every call takes   *)
(* effect at one instant, whole or not at all, and its answer says which.  *)
THEOREM Refinement == Spec => ImplementsRegister
  BY InitMaps, StepMaps, Invariance, PTL
     DEF Spec, ImplementsRegister, Register!Spec
=============================================================================
