----------------------------- MODULE ConfigStore -----------------------------
(***************************************************************************)
(* The configuration file of LAS: Load, Save and Init of                   *)
(* internal/config/config.go, called by the HTTP handlers of               *)
(* internal/web/server.go and by the flags of cmd/lasd/main.go, all at the *)
(* same time and without a lock.  One action per system call on the file;  *)
(* every one of them may fail, the daemon and each command-line process    *)
(* may be killed between any two, and an administrator edits the file      *)
(* behind everybody's back.  An operator that stands before an action and  *)
(* is not used is a plausible bug of it: the model checker is run on each  *)
(* to see that the properties tell it from the code.                       *)
(*                                                                         *)
(* Every Save has a temporary file of its own: os.CreateTemp picks a fresh *)
(* name.  temp[p] is the newest one p made; left over after a kill or a    *)
(* failed Remove it stays in the directory, and nobody ever reads it.      *)
(***************************************************************************)

CONSTANTS
  Handlers, Clis, Good, Bad, DefaultConfig, Torn, NoFile, None

ASSUME DefaultAssumption == DefaultConfig \in Good
ASSUME ProcAssumption == Handlers \cap Clis = {}
ASSUME BytesAssumption ==
  /\ Torn \notin Good \cup Bad
  /\ Good \cap Bad = {}
  /\ NoFile \notin Good \cup Bad \cup {Torn}
ASSUME AnswerAssumption == {"saved", "error", None} \cap Good = {}
ASSUME NoneAssumption ==
  /\ None \notin {"saved", "error"}
  /\ \A d \in Good \cup Bad \cup {Torn, NoFile}, o \in {"get", "put", "init"} :
       None # [op |-> o, doc |-> d]

VARIABLES
  file,    \* the bytes at the config path, or NoFile
  temp,    \* per process: the bytes of its newest temporary file, or NoFile
  pc,      \* per process: the system call it is about to make
  doc,     \* per process: the bytes read, or the document to write
  call,    \* per process: the request it serves, or None
  answer   \* per process: the value it returned last, None before it returns

vars == <<file, temp, pc, doc, call, answer>>

(* What Load makes of the bytes it read.  loadConfigOrDefault turns        *)
(* ErrNotExist into the default document; the command line reports it.     *)
LoadedWithoutDefault(p, bytes) ==
  IF bytes \in Good \cup {NoFile} THEN bytes ELSE "error"

Loaded(p, bytes) ==
  IF bytes \in Good THEN bytes
  ELSE IF bytes = NoFile /\ p \in Handlers THEN DefaultConfig
  ELSE "error"

(* A Load takes effect when it reads; its answer is fixed from then on.    *)
Seen == [p \in Handlers \cup Clis |->
           IF pc[p] = "check" THEN Loaded(p, doc[p]) ELSE answer[p]]

Register == INSTANCE ConfigRegister WITH reg <- file, answer <- Seen

Proc == Handlers \cup Clis
Content == Good \cup Bad \cup {Torn}
SaveSteps == {"create", "write", "finish", "rename", "cleanup"}
Steps == {"idle", "read", "check", "admit", "stat", "return"} \cup SaveSteps

TypeOK ==
  /\ file \in Content \cup {NoFile}
  /\ temp \in [Proc -> Content \cup {NoFile}]
  /\ pc \in [Proc -> Steps]
  /\ doc \in [Proc -> Content \cup {NoFile}]
  /\ call \in [Proc -> Register!AllCalls \cup {None}]
  /\ answer \in [Proc -> Register!Answers]

Init ==
  /\ file \in Content \cup {NoFile}
  /\ temp = [p \in Proc |-> NoFile]
  /\ pc = [p \in Proc |-> "idle"]
  /\ doc = [p \in Proc |-> NoFile]
  /\ call = [p \in Proc |-> None]
  /\ answer = [p \in Proc |-> None]

Goto(p, step) == pc' = [pc EXCEPT ![p] = step]

Fail(p, step) ==
  /\ answer' = [answer EXCEPT ![p] = "error"]
  /\ Goto(p, step)

-----------------------------------------------------------------------------
(* Requests and answers.                                                   *)

(* A handler or a flag of lasd picks its operation.                        *)
Begin(p, c, step) ==
  /\ pc[p] = "idle"
  /\ call' = [call EXCEPT ![p] = c]
  /\ answer' = [answer EXCEPT ![p] = None]
  /\ doc' = [doc EXCEPT ![p] = c.doc]
  /\ Goto(p, step)
  /\ UNCHANGED <<file, temp>>

BeginGet(p) == Begin(p, Register!GetCall, "read")

BeginPut(p) ==
  /\ p \in Handlers
  /\ \E d \in Content : Begin(p, Register!PutCall(d), "admit")

BeginInit(p) ==
  /\ p \in Clis
  /\ Begin(p, Register!InitCall, "stat")

Return(p) ==
  /\ pc[p] = "return"
  /\ Goto(p, "idle")
  /\ call' = [call EXCEPT ![p] = None]
  /\ doc' = [doc EXCEPT ![p] = NoFile]
  /\ UNCHANGED <<file, temp, answer>>

-----------------------------------------------------------------------------
(* Load: read the whole file, then decode and validate what was read.      *)

ReadFile(p) ==
  /\ pc[p] = "read"
  /\ doc' = [doc EXCEPT ![p] = file]
  /\ Goto(p, "check")
  /\ UNCHANGED <<file, temp, call, answer>>

ReadFails(p) ==
  /\ pc[p] = "read"
  /\ Fail(p, "return")
  /\ UNCHANGED <<file, temp, doc, call>>

Check(p) ==
  /\ pc[p] = "check"
  /\ answer' = [answer EXCEPT ![p] = Loaded(p, doc[p])]
  /\ Goto(p, "return")
  /\ UNCHANGED <<file, temp, doc, call>>

-----------------------------------------------------------------------------
(* Save: validate, write a temporary file beside the target, rename it.    *)

(* The handler decodes the body and Save validates it before any file is   *)
(* touched.                                                                *)
Admit(p) ==
  /\ pc[p] = "admit"
  /\ \/ doc[p] \in Good /\ Goto(p, "create") /\ UNCHANGED answer
     \/ doc[p] \notin Good /\ Fail(p, "return")
  /\ UNCHANGED <<file, temp, doc, call>>

(* Init: the file is looked for here and replaced six steps later.         *)
Stat(p) ==
  /\ pc[p] = "stat"
  /\ \/ file = NoFile /\ Goto(p, "create") /\ UNCHANGED answer
     \/ file # NoFile /\ Fail(p, "return")
  /\ UNCHANGED <<file, temp, doc, call>>

StatFails(p) ==
  /\ pc[p] = "stat"
  /\ Fail(p, "return")
  /\ UNCHANGED <<file, temp, doc, call>>

CreateInPlace(p) ==
  /\ pc[p] = "create"
  /\ file' = Torn
  /\ temp' = [temp EXCEPT ![p] = Torn]
  /\ Goto(p, "write")
  /\ UNCHANGED <<doc, call, answer>>

CreateTemp(p) ==
  /\ pc[p] = "create"
  /\ temp' = [temp EXCEPT ![p] = Torn]
  /\ Goto(p, "write")
  /\ UNCHANGED <<file, doc, call, answer>>

CreateRetries(p) ==
  /\ pc[p] = "create"
  /\ Goto(p, "admit")
  /\ UNCHANGED <<file, temp, doc, call, answer>>

(* MkdirAll or CreateTemp fails: there is no temporary file to remove.     *)
CreateFails(p) ==
  /\ pc[p] = "create"
  /\ Fail(p, "return")
  /\ UNCHANGED <<file, temp, doc, call>>

WriteTemp(p) ==
  /\ pc[p] = "write"
  /\ temp' = [temp EXCEPT ![p] = doc[p]]
  /\ Goto(p, "finish")
  /\ UNCHANGED <<file, doc, call, answer>>

(* Chmod and Close change nothing the other processes see.                 *)
FinishTemp(p) ==
  /\ pc[p] = "finish"
  /\ Goto(p, "rename")
  /\ UNCHANGED <<file, temp, doc, call, answer>>

SaveFailsSilently(p) ==
  /\ pc[p] \in {"write", "finish", "rename"}
  /\ answer' = [answer EXCEPT ![p] = "saved"]
  /\ Goto(p, "cleanup")
  /\ UNCHANGED <<file, temp, doc, call>>

(* Write, Chmod, Close or Rename fails: report it, then remove the file.   *)
SaveFails(p) ==
  /\ pc[p] \in {"write", "finish", "rename"}
  /\ Fail(p, "cleanup")
  /\ UNCHANGED <<file, temp, doc, call>>

CopyOver(p) ==
  /\ pc[p] = "rename"
  /\ file' = temp[p]
  /\ answer' = [answer EXCEPT ![p] = "saved"]
  /\ Goto(p, "cleanup")
  /\ UNCHANGED <<temp, doc, call>>

Rename(p) ==
  /\ pc[p] = "rename"
  /\ file' = temp[p]
  /\ temp' = [temp EXCEPT ![p] = NoFile]
  /\ answer' = [answer EXCEPT ![p] = "saved"]
  /\ Goto(p, "cleanup")
  /\ UNCHANGED <<doc, call>>

(* The deferred Remove, whose error is dropped: the file may stay.         *)
Cleanup(p) ==
  /\ pc[p] = "cleanup"
  /\ temp' \in {temp, [temp EXCEPT ![p] = NoFile]}
  /\ Goto(p, "return")
  /\ UNCHANGED <<file, doc, call, answer>>

-----------------------------------------------------------------------------
(* The environment.                                                        *)

(* The daemon is stopped with all its handlers, a command line on its own. *)
Kill(P) ==
  /\ \E p \in P : pc[p] # "idle"
  /\ pc' = [p \in Proc |-> IF p \in P THEN "idle" ELSE pc[p]]
  /\ doc' = [p \in Proc |-> IF p \in P THEN NoFile ELSE doc[p]]
  /\ call' = [p \in Proc |-> IF p \in P THEN None ELSE call[p]]
  /\ answer' = [p \in Proc |-> IF p \in P THEN None ELSE answer[p]]
  /\ UNCHANGED <<file, temp>>

(* An administrator writes or removes the file with other tools.           *)
Edit ==
  /\ \E bytes \in Content \cup {NoFile} : file' = bytes
  /\ UNCHANGED <<temp, pc, doc, call, answer>>

LoadStep(p) == ReadFile(p) \/ ReadFails(p) \/ Check(p)
SaveStep(p) ==
  \/ Admit(p) \/ Stat(p) \/ StatFails(p)
  \/ CreateTemp(p) \/ CreateFails(p)
  \/ WriteTemp(p) \/ FinishTemp(p) \/ SaveFails(p)
  \/ Rename(p) \/ Cleanup(p)
Step(p) == LoadStep(p) \/ SaveStep(p) \/ Return(p)

Request(p) == BeginGet(p) \/ BeginPut(p) \/ BeginInit(p)

Next ==
  \/ \E p \in Proc : Request(p) \/ Step(p)
  \/ Kill(Handlers)
  \/ \E p \in Clis : Kill({p})
  \/ Edit

Spec == Init /\ [][Next]_vars

(* The kernel answers every system call and the Go scheduler runs every    *)
(* goroutine: a process with a call to make makes it.  Nobody has to send  *)
(* a request, edit the file or kill anything.                              *)
Fairness == \A p \in Proc : WF_vars(Step(p))
FairSpec == Spec /\ Fairness

-----------------------------------------------------------------------------
(* Properties.                                                             *)

(* Whatever is killed or fails, the program itself replaces the file only  *)
(* by a complete valid document and never removes it                       *)
(* (config.go: validate first, temporary file, rename).                    *)
OnlyCompleteReplacements == [][file' # file /\ ~Edit => file' \in Good]_vars

(* "saved" is answered only by a call whose own document was valid, and it *)
(* leaves no temporary file behind (config.go: Save).                      *)
SavedMeansStored ==
  \A p \in Proc :
    pc[p] \in {"cleanup", "return"} /\ answer[p] = "saved" =>
      call[p].doc \in Good /\ temp[p] = NoFile

(* Each call takes effect at one instant, whole or not at all, and its     *)
(* answer says which: the file system dance implements the register.       *)
ImplementsRegister == Register!Spec

(* Every request is answered, or its process was killed: no failed system  *)
(* call is retried for ever (handleConfig, Load, Save and Init return).    *)
EveryCallReturns == \A p \in Proc : pc[p] # "idle" ~> pc[p] = "idle"

(* main.go: -init-config is said to "write a default config if the path    *)
(* does not exist": an initialisation never replaces a file.               *)
InitNeverOverwrites ==
  [][\A p \in Clis : Rename(p) => file = NoFile]_vars
=============================================================================
