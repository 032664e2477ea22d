--------------------------- MODULE ConfigRegister ---------------------------
(***************************************************************************)
(* What the configuration file promises to its users, without the file     *)
(* system: a register that holds one document.  A call takes effect at one *)
(* instant between its invocation and its return, whole or not at all, and *)
(* its answer tells which.  A killed process forgets its call; whatever    *)
(* the call had done by then stays.                                        *)
(*                                                                         *)
(* The promise is the one internal/config/config.go can keep.  In          *)
(* particular an "init" is only promised to refuse or to store the default *)
(* document: ConfigStore shows why "store it only if there is no file"     *)
(* cannot be promised.                                                     *)
(***************************************************************************)

CONSTANTS
  Handlers,       \* goroutines of the daemon that serve the HTTP API
  Clis,           \* processes that run lasd with a flag and exit
  Good,           \* documents that decode and validate
  Bad,            \* documents that decode and do not validate
  DefaultConfig,  \* the document config.Default() builds
  Torn,           \* bytes that do not decode
  NoFile,         \* the path does not exist
  None            \* no call, or no answer yet

Proc == Handlers \cup Clis
Content == Good \cup Bad \cup {Torn}

(***************************************************************************)
(* The requests a process can carry.  Only the daemon stores a document    *)
(* somebody sends; only the command line initialises.                      *)
(***************************************************************************)
GetCall == [op |-> "get", doc |-> NoFile]
PutCall(d) == [op |-> "put", doc |-> d]
InitCall == [op |-> "init", doc |-> DefaultConfig]

Calls(p) ==
  IF p \in Handlers
  THEN {GetCall} \cup {PutCall(d) : d \in Content}
  ELSE {GetCall, InitCall}

AllCalls == {GetCall, InitCall} \cup {PutCall(d) : d \in Content}
Answers == Good \cup {"saved", "error", None}

(***************************************************************************)
(* What a reader makes of the bytes it found: the daemon falls back to the *)
(* default document when there is no file, the command line does not.      *)
(***************************************************************************)
View(p, bytes) ==
  IF bytes \in Good THEN bytes
  ELSE IF bytes = NoFile /\ p \in Handlers THEN DefaultConfig
  ELSE "error"

-----------------------------------------------------------------------------

VARIABLES
  reg,     \* the document stored, or NoFile
  call,    \* per process: the request it carries, or None
  answer   \* per process: the outcome of its latest request

vars == <<reg, call, answer>>

Init ==
  /\ reg \in Content \cup {NoFile}
  /\ call = [p \in Proc |-> None]
  /\ answer = [p \in Proc |-> None]

Invoke(p) ==
  /\ call[p] = None
  /\ \E c \in Calls(p) : call' = [call EXCEPT ![p] = c]
  /\ answer' = [answer EXCEPT ![p] = None]
  /\ UNCHANGED reg

Pending(p) == call[p] # None /\ answer[p] = None

Answer(p, a) ==
  /\ answer' = [answer EXCEPT ![p] = a]
  /\ UNCHANGED call

Read(p) ==
  /\ Pending(p)
  /\ call[p] = GetCall
  /\ Answer(p, View(p, reg))
  /\ UNCHANGED reg

Store(p) ==
  /\ Pending(p)
  /\ call[p] # GetCall
  /\ call[p].doc \in Good
  /\ reg' = call[p].doc
  /\ Answer(p, "saved")

Refuse(p) ==
  /\ Pending(p)
  /\ Answer(p, "error")
  /\ UNCHANGED reg

Return(p) ==
  /\ call[p] # None
  /\ answer[p] # None
  /\ call' = [call EXCEPT ![p] = None]
  /\ UNCHANGED <<reg, answer>>

Forget(P) ==
  /\ call' = [p \in Proc |-> IF p \in P THEN None ELSE call[p]]
  /\ answer' = [p \in Proc |-> IF p \in P THEN None ELSE answer[p]]
  /\ UNCHANGED reg

Edit ==
  /\ reg' \in Content \cup {NoFile}
  /\ UNCHANGED <<call, answer>>

Next ==
  \/ \E p \in Proc :
       Invoke(p) \/ Read(p) \/ Store(p) \/ Refuse(p) \/ Return(p)
  \/ Forget(Handlers)
  \/ \E p \in Clis : Forget({p})
  \/ Edit

Spec == Init /\ [][Next]_vars
=============================================================================
