---------------------------- MODULE WebUIProofs -----------------------------
(***************************************************************************)
(* Theorems about WebUI for any number of browsers, calls and documents.   *)
(*                                                                         *)
(* The invariant follows a document through its calls.  CallInv ties each  *)
(* call to the request the daemon serves.  SaveInv says that a careful     *)
(* save is the only one under way and carries every edit that counts, and  *)
(* that nothing counts while a rash one is.  TurnInv says that whose turn  *)
(* it is gets those edits: the answers under way have them, and so has his *)
(* copy, unless he waits for one or was shown an error.                    *)
(***************************************************************************)
EXTENDS WebUI, TLAPS

USE WebAssumption, NoneAssumption

IsLoad(h) == flight[h] # None /\ flight[h].kind \in {"open", "load"}
IsSave(h, kind) == flight[h] # None /\ flight[h].kind = kind

CallInv(h) ==
  /\ flight[h] = None => call[h] = None
  /\ call[h] = None => answer[h] = None
  /\ call[h] # None /\ IsLoad(h) =>
       call[h] = Register!GetCall /\ answer[h] \in Documents \cup {"error", None}
  /\ call[h] # None /\ ~IsLoad(h) =>
       /\ call[h].op = "put"
       /\ call[h].doc \in Copies
       /\ answer[h] \in {"saved", "error", None}

SaveInv(h) ==
  /\ IsSave(h, "save") => \A g \in Handlers : IsSave(g, "save") \/ IsSave(g, "rash") => g = h
  /\ IsSave(h, "rash") => kept = {}
  /\ IsSave(h, "save") /\ call[h] # None =>
       call[h].doc = Null \/ kept \subseteq Has[call[h].doc]
  /\ IsSave(h, "save") /\ call[h] # None /\ answer[h] = "saved" =>
       call[h].doc \in Documents /\ reg = call[h].doc

TurnInv(h, b) ==
  /\ IsSave(h, "save") => \A g \in Handlers : flight[g] # None => g = h
  /\ IsSave(h, "save") /\ call[h] # None /\ call[h].doc # Null =>
       copy[b] = Null \/ Has[call[h].doc] \subseteq Has[copy[b]]
  /\ IsLoad(h) /\ answer[h] \notin {"error", None} => kept \subseteq Has[answer[h]]

CopyInv(b) ==
  notice[b] # "error" /\ (\A h \in Handlers : IsLoad(h) => flight[h].browser # b) =>
    copy[b] = Null \/ kept \subseteq Has[copy[b]]

Inv ==
  /\ TypeOK
  /\ \A h \in Handlers : CallInv(h) /\ SaveInv(h)
  /\ turn # None => CopyInv(turn) /\ \A h \in Handlers : TurnInv(h, turn)
  /\ CarefulKeepsEdits

-----------------------------------------------------------------------------
(* Lemmas about calls.                                                     *)

Flights == [browser : Browsers \cup {None}, kind : Kind]

(* A click starts one call.                                                *)
LEMMA Asked ==
  ASSUME TypeOK, NEW b \in Browsers, NEW h \in Handlers, NEW kind \in Kind,
         NEW request \in Register!AllCalls,
         NEW others \in [Handlers -> Flights \cup {None}],
         Ask(b, h, kind, request, others)
  PROVE  /\ reg' = reg /\ flight[h] = None /\ call[h] = None
         /\ call'[h] = request /\ answer'[h] = None
         /\ flight'[h] = [browser |-> b, kind |-> kind]
         /\ \A g \in Handlers \ {h} :
              call'[g] = call[g] /\ answer'[g] = answer[g] /\ flight'[g] = others[g]
         /\ call' \in [Handlers -> Register!AllCalls \cup {None}]
         /\ answer' \in [Handlers -> Register!Answers]
         /\ flight' \in [Handlers -> Flights \cup {None}]
<1>1. /\ call \in [Handlers -> Register!AllCalls \cup {None}]
      /\ answer \in [Handlers -> Register!Answers]
      /\ [browser |-> b, kind |-> kind] \in Flights
      /\ None \in Register!Answers
  BY DEF TypeOK, Flights, Register!Answers
<1>2. /\ flight[h] = None /\ call[h] = None /\ call'[h] = request /\ reg' = reg
      /\ answer' = [answer EXCEPT ![h] = None]
      /\ flight' = [others EXCEPT ![h] = [browser |-> b, kind |-> kind]]
      /\ \E c \in Register!Calls(h) : call' = [call EXCEPT ![h] = c]
  BY DEF Ask, Register!Invoke
<1>3. call' = [call EXCEPT ![h] = request]
  BY <1>1, <1>2
<1> QED BY <1>1, <1>2, <1>3

(* An answer, or the daemon's end, finishes one call.                      *)
Finished(h) ==
  /\ flight[h] # None
  /\ \/ Register!Forget({h})
     \/ call[h] = None /\ UNCHANGED store
  /\ flight' = [flight EXCEPT ![h] = None]

LEMMA FinishedCall ==
  ASSUME TypeOK, NEW h \in Handlers, CallInv(h), Finished(h)
  PROVE  /\ reg' = reg /\ flight[h] # None
         /\ call'[h] = None /\ answer'[h] = None /\ flight'[h] = None
         /\ \A g \in Handlers \ {h} :
              call'[g] = call[g] /\ answer'[g] = answer[g] /\ flight'[g] = flight[g]
         /\ call' \in [Handlers -> Register!AllCalls \cup {None}]
         /\ answer' \in [Handlers -> Register!Answers]
         /\ flight' \in [Handlers -> Flights \cup {None}]
<1>1. /\ call \in [Handlers -> Register!AllCalls \cup {None}]
      /\ answer \in [Handlers -> Register!Answers]
      /\ flight \in [Handlers -> Flights \cup {None}]
      /\ None \in Register!Answers
  BY DEF TypeOK, Flights, Register!Answers
<1>2. CASE Register!Forget({h})
  BY <1>1, <1>2 DEF Finished, Register!Forget, Register!Proc
<1>3. CASE call[h] = None /\ UNCHANGED store
  BY <1>1, <1>3 DEF Finished, store, CallInv
<1> QED BY <1>2, <1>3 DEF Finished

(* A step that ends a call, and adds no edit to what counts, keeps the     *)
(* invariant if the copies do.                                             *)
LEMMA FinishInv ==
  ASSUME Inv, NEW h \in Handlers, Finished(h), UNCHANGED history,
         copy' \in [Browsers -> Copies],
         falling' \in SUBSET Browsers,
         notice' \in [Browsers -> {"closed", "fine", "error"}],
         turn # None => CopyInv(turn)',
         turn # None => copy'[turn] = copy[turn] \/ IsLoad(h)
  PROVE  Inv'
<1>1. TypeOK /\ CallInv(h) /\ UNCHANGED <<kept, turn>>
  BY DEF Inv, history
<1>2. /\ reg' = reg /\ flight[h] # None
      /\ call'[h] = None /\ answer'[h] = None /\ flight'[h] = None
      /\ \A g \in Handlers \ {h} :
           call'[g] = call[g] /\ answer'[g] = answer[g] /\ flight'[g] = flight[g]
      /\ call' \in [Handlers -> Register!AllCalls \cup {None}]
      /\ answer' \in [Handlers -> Register!Answers]
      /\ flight' \in [Handlers -> Flights \cup {None}]
  BY <1>1, FinishedCall
<1>3. TypeOK'
  BY <1>1, <1>2 DEF TypeOK, Flights
<1>4. ASSUME NEW g \in Handlers PROVE CallInv(g)' /\ SaveInv(g)'
  <2>1. CASE g = h
    BY <1>2, <2>1 DEF CallInv, SaveInv, IsLoad, IsSave
  <2>2. CASE g # h
    BY <1>1, <1>2, <2>2 DEF Inv, CallInv, SaveInv, IsLoad, IsSave
  <2> QED BY <2>1, <2>2
<1>5. ASSUME turn # None, NEW g \in Handlers PROVE TurnInv(g, turn)'
  <2>1. CASE g = h
    BY <1>2, <2>1 DEF TurnInv, IsLoad, IsSave
  <2>2. CASE g # h
    <3>1. TurnInv(g, turn)
      BY <1>5 DEF Inv
    <3>2. IsSave(g, "save") => copy'[turn] = copy[turn]
      BY <1>2, <1>5, <2>2, <3>1 DEF TurnInv
    <3> QED BY <1>1, <1>2, <2>2, <3>1, <3>2 DEF TurnInv, IsLoad, IsSave
  <2> QED BY <2>1, <2>2
<1>6. CarefulKeepsEdits'
  BY <1>1, <1>2 DEF Inv, CarefulKeepsEdits
<1> QED BY <1>1, <1>3, <1>4, <1>5, <1>6 DEF Inv

-----------------------------------------------------------------------------
(* One lemma per action.                                                   *)

(* The answer to a load, if one has come, has every edit that counts.      *)
LEMMA ConfigCounts ==
  ASSUME Inv, NEW h \in Handlers, Got(h)
  PROVE  /\ Finished(h) /\ Config(h) \in Copies /\ IsLoad(h) /\ Browser(h) \in Browsers
         /\ turn # None => Config(h) = Null \/ kept \subseteq Has[Config(h)]
<1>1. IsLoad(h) /\ Browser(h) \in Browsers /\ Finished(h)
  BY DEF Got, Deliver, Break, Waits, IsLoad, Finished, Browser, Inv, TypeOK
<1>2. CASE call[h] = None
  BY <1>1, <1>2 DEF Config, Copies
<1>3. CASE call[h] # None
  <2>1. answer[h] # None /\ answer[h] # "error" /\ CallInv(h)
    BY <1>3 DEF Got, Deliver, Break, Inv
  <2>2. answer[h] \in Documents
    BY <1>1, <1>3, <2>1 DEF CallInv
  <2> QED BY <1>1, <1>3, <2>1, <2>2 DEF Config, Copies, Inv, TurnInv
<1> QED BY <1>2, <1>3

LEMMA CopyReplaced ==
  ASSUME Inv, NEW h \in Handlers, Got(h),
         copy' = [copy EXCEPT ![Browser(h)] = Config(h)], UNCHANGED kept,
         \A b \in Browsers \ {Browser(h)} : notice'[b] = notice[b],
         flight' = [flight EXCEPT ![h] = None]
  PROVE  /\ copy' \in [Browsers -> Copies]
         /\ turn # None /\ turn' = turn => CopyInv(turn)'
<1>1. /\ Config(h) \in Copies /\ IsLoad(h) /\ Browser(h) \in Browsers
      /\ turn # None => Config(h) = Null \/ kept \subseteq Has[Config(h)]
  BY ConfigCounts
<1>2. /\ copy' \in [Browsers -> Copies] /\ copy'[Browser(h)] = Config(h)
      /\ \A b \in Browsers \ {Browser(h)} : copy'[b] = copy[b]
  BY <1>1 DEF Inv, TypeOK
<1>3. ASSUME turn # None, turn' = turn PROVE CopyInv(turn)'
  <2>1. CASE turn = Browser(h)
    BY <1>1, <1>2, <1>3, <2>1 DEF CopyInv
  <2>2. CASE turn # Browser(h)
    <3>1. turn \in Browsers /\ CopyInv(turn)
      BY <1>3 DEF Inv, TypeOK
    <3>2. copy'[turn] = copy[turn] /\ notice'[turn] = notice[turn]
      BY <1>2, <2>2, <3>1
    <3>3. \A g \in Handlers : IsLoad(g) /\ flight[g].browser = turn =>
             IsLoad(g)' /\ flight'[g].browser = turn
      BY <2>2 DEF IsLoad, Browser, Inv, TypeOK
    <3> QED BY <1>3, <3>1, <3>2, <3>3 DEF CopyInv
  <2> QED BY <2>1, <2>2
<1> QED BY <1>2, <1>3

LEMMA LoadedInv ==
  ASSUME Inv, NEW h \in Handlers, Loaded(h) \/ Unrendered(h)
  PROVE  Inv'
<1>1. /\ Got(h) /\ UNCHANGED history /\ copy' = [copy EXCEPT ![Browser(h)] = Config(h)]
      /\ \E text \in {"fine", "error"} : Say(Browser(h), text)
      /\ falling' \in {falling, falling \cup {Browser(h)}}
  BY DEF Loaded, Unrendered, Fallback
<1>2. Finished(h) /\ IsLoad(h) /\ Browser(h) \in Browsers
  BY <1>1, ConfigCounts
<1>3. /\ notice' \in [Browsers -> {"closed", "fine", "error"}]
      /\ \A b \in Browsers \ {Browser(h)} : notice'[b] = notice[b]
  BY <1>1, <1>2 DEF Say, Inv, TypeOK
<1>4. falling' \in SUBSET Browsers
  BY <1>1, <1>2 DEF Inv, TypeOK
<1>5. copy' \in [Browsers -> Copies] /\ (turn # None => CopyInv(turn)')
  BY <1>1, <1>2, <1>3, CopyReplaced DEF Finished, history
<1> QED BY <1>1, <1>2, <1>3, <1>4, <1>5, FinishInv

LEMMA FailedInv ==
  ASSUME Inv, NEW h \in Handlers, Failed(h) \/ Disconnected(h)
  PROVE  Inv'
<1>1. /\ Finished(h) /\ UNCHANGED <<copy, history>> /\ Browser(h) \in Browsers
      /\ Say(Browser(h), "error")
      /\ falling' \in {falling, falling \cup {Browser(h)}}
  BY DEF Failed, Disconnected, Fallback, Deliver, Break, Waits, Finished, Browser,
     Inv, TypeOK
<1>2. /\ notice' \in [Browsers -> {"closed", "fine", "error"}]
      /\ notice'[Browser(h)] = "error"
      /\ \A b \in Browsers \ {Browser(h)} : notice'[b] = notice[b]
  BY <1>1 DEF Say, Inv, TypeOK
<1>3. falling' \in SUBSET Browsers /\ copy' \in [Browsers -> Copies]
  BY <1>1 DEF Inv, TypeOK
<1>4. ASSUME turn # None PROVE CopyInv(turn)'
  <2>0. turn' = turn /\ kept' = kept /\ copy' = copy
    BY <1>1 DEF history
  <2>1. CASE turn = Browser(h)
    BY <1>2, <2>0, <2>1 DEF CopyInv
  <2>2. CASE turn # Browser(h)
    <3>1. turn \in Browsers /\ CopyInv(turn)
      BY <1>4 DEF Inv, TypeOK
    <3>2. notice'[turn] = notice[turn]
      BY <1>2, <2>2, <3>1
    <3>3. \A g \in Handlers : IsLoad(g) /\ flight[g].browser = turn =>
             IsLoad(g)' /\ flight'[g].browser = turn
      BY <1>1, <2>2 DEF Finished, IsLoad, Browser, Inv, TypeOK
    <3> QED BY <2>0, <3>1, <3>2, <3>3 DEF CopyInv
  <2> QED BY <2>1, <2>2
<1> QED BY <1>1, <1>2, <1>3, <1>4, FinishInv

LEMMA UnheardInv ==
  ASSUME Inv, NEW h \in Handlers, Unheard(h)
  PROVE  Inv'
<1>1. /\ Finished(h) /\ UNCHANGED <<copy, falling, notice, history>>
      /\ flight[h].browser = None
  BY DEF Unheard, Finished, pages
<1>2. /\ notice' \in [Browsers -> {"closed", "fine", "error"}]
      /\ falling' \in SUBSET Browsers /\ copy' \in [Browsers -> Copies]
  BY <1>1 DEF Inv, TypeOK
<1>3. ASSUME turn # None PROVE CopyInv(turn)'
  <2>1. turn' = turn /\ kept' = kept /\ copy' = copy /\ notice' = notice
    BY <1>1 DEF history
  <2>2. \A g \in Handlers : IsLoad(g) /\ flight[g].browser = turn =>
           IsLoad(g)' /\ flight'[g].browser = turn
    BY <1>1, <1>3 DEF Finished, IsLoad, Inv, TypeOK
  <2> QED BY <1>3, <2>1, <2>2 DEF CopyInv, Inv
<1> QED BY <1>1, <1>2, <1>3, FinishInv

(* "Config saved." adds the edits of a careful save to what counts.        *)
LEMMA SavedInv ==
  ASSUME Inv, NEW h \in Handlers, Saved(h)
  PROVE  Inv'
<1>1. /\ TypeOK /\ CallInv(h) /\ SaveInv(h) /\ Finished(h) /\ Browser(h) \in Browsers
      /\ answer[h] # None /\ answer[h] # "error"
      /\ UNCHANGED <<copy, falling, turn>> /\ Say(Browser(h), "fine")
      /\ flight[h] # None /\ flight[h].kind \in {"save", "rash"}
      /\ kept' = IF flight[h].kind = "save" THEN kept \cup Has[call[h].doc] ELSE kept
  BY DEF Saved, Deliver, Waits, Finished, Browser, Inv, TypeOK
<1>2. call[h] # None /\ ~IsLoad(h)
  BY <1>1 DEF CallInv, IsLoad
<1>3. answer[h] = "saved"
  BY <1>1, <1>2 DEF CallInv
<1>4. /\ reg' = reg /\ flight[h] # None
      /\ call'[h] = None /\ answer'[h] = None /\ flight'[h] = None
      /\ \A g \in Handlers \ {h} :
           call'[g] = call[g] /\ answer'[g] = answer[g] /\ flight'[g] = flight[g]
      /\ call' \in [Handlers -> Register!AllCalls \cup {None}]
      /\ answer' \in [Handlers -> Register!Answers]
      /\ flight' \in [Handlers -> Flights \cup {None}]
  BY <1>1, FinishedCall
<1>5. /\ notice' \in [Browsers -> {"closed", "fine", "error"}]
      /\ \A b \in Browsers \ {Browser(h)} : notice'[b] = notice[b]
  BY <1>1 DEF Say, TypeOK
<1>6. CASE IsSave(h, "save")
  <2> DEFINE doc == call[h].doc
  <2>1. doc \in Documents /\ reg = doc /\ doc # Null /\ kept \subseteq Has[doc]
        /\ kept' = Has[doc]
    BY <1>1, <1>2, <1>3, <1>6 DEF SaveInv, IsSave
  <2>2. ASSUME NEW g \in Handlers PROVE ~IsSave(g, "save")' /\ ~IsSave(g, "rash")'
    BY <1>1, <1>4, <1>6 DEF SaveInv, IsSave
  <2>3. TypeOK'
    BY <1>1, <1>4, <1>5, <2>1 DEF TypeOK, Flights
  <2>4. ASSUME NEW g \in Handlers PROVE CallInv(g)' /\ SaveInv(g)'
    <3>1. CallInv(g)'
      <4>1. CASE g = h
        BY <1>4, <4>1 DEF CallInv
      <4>2. CASE g # h
        BY <1>4, <4>2 DEF Inv, CallInv, IsLoad
      <4> QED BY <4>1, <4>2
    <3> QED BY <2>2, <3>1 DEF SaveInv
  <2>5. ASSUME turn # None PROVE CopyInv(turn)' /\ \A g \in Handlers : TurnInv(g, turn)'
    <3>1. TurnInv(h, turn)
      BY <2>5 DEF Inv
    <3>2. \A g \in Handlers : flight'[g] = None
      BY <1>4, <1>6, <3>1 DEF TurnInv
    <3>3. copy[turn] = Null \/ Has[doc] \subseteq Has[copy[turn]]
      BY <1>2, <1>6, <2>1, <3>1 DEF TurnInv
    <3> QED BY <1>1, <2>1, <3>2, <3>3 DEF CopyInv, TurnInv, IsLoad, IsSave
  <2>6. CarefulKeepsEdits'
    BY <1>4, <2>1 DEF CarefulKeepsEdits
  <2> QED BY <1>1, <2>3, <2>4, <2>5, <2>6 DEF Inv
<1>7. CASE ~IsSave(h, "save")
  <2>1. UNCHANGED history /\ kept = {} /\ kept' = kept
    BY <1>1, <1>7 DEF IsSave, SaveInv, history
  <2>2. turn # None => CopyInv(turn)'
    BY <1>1, <2>1 DEF CopyInv
  <2>3. copy' \in [Browsers -> Copies] /\ falling' \in SUBSET Browsers
    BY <1>1 DEF TypeOK
  <2> QED BY <1>1, <1>5, <2>1, <2>2, <2>3, FinishInv
<1> QED BY <1>6, <1>7

(* A page that asks for the file waits for it, so nothing is said of its   *)
(* copy yet, and it has the turn only if no save is under way.             *)
LEMMA AskedForFile ==
  ASSUME Inv, NEW b \in Browsers, NEW h \in Handlers, NEW kind \in {"open", "load"},
         NEW others \in [Handlers -> Flights \cup {None}],
         Ask(b, h, kind, Register!GetCall, others), TakeTurn(b),
         \A g \in Handlers :
           /\ others[g] = None <=> flight[g] = None
           /\ flight[g] # None => others[g].kind = flight[g].kind,
         copy' \in [Browsers -> Copies], falling' \in SUBSET Browsers,
         notice' \in [Browsers -> {"closed", "fine", "error"}]
  PROVE  Inv'
<1>1. /\ TypeOK /\ kept' = kept /\ turn' \in {b, None}
      /\ turn' # None => Saving = {} /\ turn' = b /\ (Quiet \/ turn # None)
  BY DEF Inv, TakeTurn
<1>2. /\ reg' = reg /\ flight[h] = None /\ call[h] = None
      /\ call'[h] = Register!GetCall /\ answer'[h] = None
      /\ flight'[h] = [browser |-> b, kind |-> kind]
      /\ \A g \in Handlers \ {h} :
           call'[g] = call[g] /\ answer'[g] = answer[g] /\ flight'[g] = others[g]
      /\ call' \in [Handlers -> Register!AllCalls \cup {None}]
      /\ answer' \in [Handlers -> Register!Answers]
      /\ flight' \in [Handlers -> Flights \cup {None}]
  <2>1. kind \in Kind /\ Register!GetCall \in Register!AllCalls
    BY DEF Kind, Register!AllCalls
  <2> QED BY <1>1, <2>1, Asked
<1>3. TypeOK'
  BY <1>1, <1>2 DEF TypeOK, Flights
<1>4. IsLoad(h)' /\ \A g \in Handlers \ {h} :
        /\ IsLoad(g)' <=> IsLoad(g)
        /\ \A k : IsSave(g, k)' <=> IsSave(g, k)
        /\ flight'[g] = None <=> flight[g] = None
  <2>1. [browser |-> b, kind |-> kind] # None
    BY DEF Kind
  <2> QED BY <1>2, <2>1 DEF IsLoad, IsSave
<1>5. ~IsSave(h, "save")' /\ ~IsSave(h, "rash")'
  BY <1>2 DEF IsSave
<1>6. ASSUME NEW g \in Handlers PROVE CallInv(g)' /\ SaveInv(g)'
  <2>1. CASE g = h
    <3>1. CallInv(h)'
      BY <1>2, <1>4 DEF CallInv, IsLoad
    <3>2. SaveInv(h)'
      BY <1>5 DEF SaveInv
    <3> QED BY <2>1, <3>1, <3>2
  <2>2. CASE g # h
    <3>1. CallInv(g)'
      BY <1>2, <1>4, <2>2 DEF Inv, CallInv
    <3>2. SaveInv(g)'
      BY <1>1, <1>2, <1>4, <1>5, <2>2 DEF Inv, SaveInv
    <3> QED BY <3>1, <3>2
  <2> QED BY <2>1, <2>2
<1>7. ASSUME turn' # None
      PROVE  CopyInv(turn)' /\ \A g \in Handlers : TurnInv(g, turn)'
  <2>1. turn' = b /\ Saving = {}
    BY <1>1, <1>7
  <2>2. CopyInv(turn)'
    BY <1>2, <1>4, <2>1 DEF CopyInv
  <2>3. ASSUME NEW g \in Handlers PROVE TurnInv(g, turn)'
    <3>1. ~IsSave(g, "save")'
      BY <1>4, <1>5, <2>1 DEF Saving, IsSave
    <3>2. IsLoad(g)' /\ answer'[g] \notin {"error", None} => kept' \subseteq Has[answer'[g]]
      <4>1. CASE g = h
        BY <1>2, <4>1
      <4>2. CASE g # h /\ turn # None
        BY <1>1, <1>2, <1>4, <4>2 DEF Inv, TurnInv
      <4>3. CASE g # h /\ Quiet
        BY <1>4, <4>3 DEF Quiet, IsLoad
      <4> QED BY <1>1, <1>7, <4>1, <4>2, <4>3
    <3> QED BY <3>1, <3>2 DEF TurnInv
  <2> QED BY <2>2, <2>3
<1>8. CarefulKeepsEdits'
  BY <1>1, <1>2 DEF Inv, CarefulKeepsEdits
<1> QED BY <1>3, <1>6, <1>7, <1>8 DEF Inv

LEMMA OpenInv ==
  ASSUME Inv, NEW b \in Browsers, NEW h \in Handlers, Open(b, h)
  PROVE  Inv'
<1>1. /\ Ask(b, h, "open", Register!GetCall, Left(b)) /\ TakeTurn(b)
      /\ copy' \in [Browsers -> Copies] /\ falling' \in SUBSET Browsers
      /\ notice' \in [Browsers -> {"closed", "fine", "error"}]
  BY DEF Open, Inv, TypeOK, Copies
<1>2. ASSUME NEW g \in Handlers
      PROVE  /\ Left(b)[g] \in Flights \cup {None}
             /\ Left(b)[g] = None <=> flight[g] = None
             /\ flight[g] # None => Left(b)[g].kind = flight[g].kind
  <2>1. flight[g] \in Flights \cup {None}
    BY DEF Inv, TypeOK, Flights
  <2>2. CASE flight[g] # None /\ flight[g].browser = b
    <3>1. Left(b)[g] = [flight[g] EXCEPT !.browser = None]
      BY <2>2 DEF Left
    <3>2. Left(b)[g] \in Flights /\ Left(b)[g].kind = flight[g].kind
      BY <2>1, <2>2, <3>1 DEF Flights
    <3> QED BY <2>2, <3>2 DEF Flights
  <2>3. CASE ~(flight[g] # None /\ flight[g].browser = b)
    <3>1. Left(b)[g] = flight[g]
      BY <2>3 DEF Left
    <3> QED BY <2>1, <3>1
  <2> QED BY <2>2, <2>3
<1>3. Left(b) \in [Handlers -> Flights \cup {None}]
  BY <1>2 DEF Left
<1> QED BY <1>1, <1>2, <1>3, AskedForFile

LEMMA ReloadInv ==
  ASSUME Inv, NEW b \in Browsers, NEW h \in Handlers, Reload(b, h)
  PROVE  Inv'
<1>1. /\ Ask(b, h, "load", Register!GetCall, flight) /\ TakeTurn(b)
      /\ copy' \in [Browsers -> Copies] /\ falling' \in SUBSET Browsers
      /\ notice' \in [Browsers -> {"closed", "fine", "error"}]
      /\ flight \in [Handlers -> Flights \cup {None}]
  BY DEF Reload, Inv, TypeOK, pages, Flights
<1> QED BY <1>1, AskedForFile

LEMMA SaveClickInv ==
  ASSUME Inv, NEW b \in Browsers, NEW h \in Handlers, Save(b, h)
  PROVE  Inv'
<1> DEFINE kind == IF Careful(b) THEN "save" ELSE "rash"
<1>1. /\ TypeOK /\ UNCHANGED <<copy, falling, notice, turn>>
      /\ kept' = IF Careful(b) THEN kept ELSE {}
      /\ Ask(b, h, kind, Register!PutCall(copy[b]), Overtaken)
      /\ copy[b] \in Copies /\ kind \in Kind
  BY DEF Inv, Save, TypeOK, pages, Kind
<1>2. Register!PutCall(copy[b]) \in Register!AllCalls
  BY <1>1 DEF Register!AllCalls, Register!Content, Copies
<1>3. ASSUME NEW g \in Handlers
      PROVE  /\ Overtaken[g] \in Flights \cup {None}
             /\ Overtaken[g] = None <=> flight[g] = None
             /\ flight[g] # None =>
                  Overtaken[g].kind = IF g \in Saving THEN "rash" ELSE flight[g].kind
             /\ flight[g] # None => Overtaken[g].browser = flight[g].browser
  <2>1. flight[g] \in Flights \cup {None}
    BY <1>1 DEF TypeOK, Flights
  <2>2. CASE g \in Saving
    <3>1. Overtaken[g] = [flight[g] EXCEPT !.kind = "rash"] /\ flight[g] # None
      BY <2>2 DEF Overtaken, Saving
    <3>2. Overtaken[g] \in Flights /\ Overtaken[g].kind = "rash"
          /\ Overtaken[g].browser = flight[g].browser
      BY <2>1, <3>1 DEF Flights, Kind
    <3> QED BY <2>2, <3>1, <3>2 DEF Flights
  <2>3. CASE g \notin Saving
    <3>1. Overtaken[g] = flight[g]
      BY <2>3 DEF Overtaken
    <3> QED BY <2>1, <2>3, <3>1
  <2> QED BY <2>2, <2>3
<1>4. Overtaken \in [Handlers -> Flights \cup {None}]
  BY <1>3 DEF Overtaken
<1>5. /\ reg' = reg /\ flight[h] = None /\ call[h] = None
      /\ call'[h] = Register!PutCall(copy[b]) /\ answer'[h] = None
      /\ flight'[h] = [browser |-> b, kind |-> kind]
      /\ \A g \in Handlers \ {h} :
           call'[g] = call[g] /\ answer'[g] = answer[g] /\ flight'[g] = Overtaken[g]
      /\ call' \in [Handlers -> Register!AllCalls \cup {None}]
      /\ answer' \in [Handlers -> Register!Answers]
      /\ flight' \in [Handlers -> Flights \cup {None}]
  BY <1>1, <1>2, <1>4, Asked
<1>6. call'[h].op = "put" /\ call'[h].doc = copy[b]
  BY <1>5 DEF Register!PutCall
<1>7. TypeOK'
  BY <1>1, <1>5 DEF TypeOK, Flights
<1>8. ~IsLoad(h)'
  BY <1>5 DEF IsLoad
<1>9. \A g \in Handlers \ {h} :
        /\ IsLoad(g)' <=> IsLoad(g)
        /\ ~IsSave(g, "save")'
        /\ flight'[g] = None <=> flight[g] = None
        /\ flight[g] # None => flight'[g].browser = flight[g].browser
  BY <1>3, <1>5 DEF IsLoad, IsSave, Saving
<1>10. ASSUME NEW g \in Handlers PROVE CallInv(g)'
  <2>1. CASE g = h
    BY <1>1, <1>5, <1>6, <1>8, <2>1 DEF CallInv, Kind
  <2>2. CASE g # h
    BY <1>5, <1>9, <2>2 DEF Inv, CallInv
  <2> QED BY <2>1, <2>2
<1>11. CASE Careful(b)
  <2>1. /\ turn = b /\ notice[b] # "error" /\ kept' = kept /\ turn' = b
        /\ \A g \in Handlers : flight[g] = None
    BY <1>1, <1>11 DEF Careful, Quiet
  <2>2. copy[b] = Null \/ kept \subseteq Has[copy[b]]
    BY <2>1 DEF Inv, CopyInv, IsLoad, TypeOK
  <2>3. \A g \in Handlers \ {h} : flight'[g] = None
    BY <1>9, <2>1
  <2>4. ASSUME NEW g \in Handlers PROVE SaveInv(g)'
    <3>1. CASE g = h
      BY <1>5, <1>6, <1>11, <2>1, <2>2, <2>3, <3>1 DEF SaveInv, IsSave
    <3>2. CASE g # h
      BY <2>3, <3>2 DEF SaveInv, IsSave
    <3> QED BY <3>1, <3>2
  <2>5. CopyInv(turn)'
    BY <1>1, <2>1, <2>2 DEF CopyInv
  <2>6. ASSUME NEW g \in Handlers PROVE TurnInv(g, turn)'
    <3>1. CASE g = h
      BY <1>1, <1>5, <1>6, <1>8, <2>1, <2>3, <3>1 DEF TurnInv
    <3>2. CASE g # h
      BY <2>3, <3>2 DEF TurnInv, IsSave, IsLoad
    <3> QED BY <3>1, <3>2
  <2>7. CarefulKeepsEdits'
    BY <1>5, <2>1 DEF Inv, CarefulKeepsEdits
  <2> QED BY <1>7, <1>10, <2>4, <2>5, <2>6, <2>7 DEF Inv
<1>12. CASE ~Careful(b)
  <2>1. kept' = {} /\ turn' = turn
    BY <1>1, <1>12
  <2>2. \A g \in Handlers : ~IsSave(g, "save")'
    BY <1>5, <1>9, <1>12 DEF IsSave
  <2>3. \A g \in Handlers : SaveInv(g)'
    BY <2>1, <2>2 DEF SaveInv
  <2>4. CopyInv(turn)' /\ \A g \in Handlers : TurnInv(g, turn)'
    BY <2>1, <2>2 DEF CopyInv, TurnInv
  <2>5. CarefulKeepsEdits'
    BY <2>1 DEF CarefulKeepsEdits
  <2> QED BY <1>7, <1>10, <2>3, <2>4, <2>5 DEF Inv
<1> QED BY <1>11, <1>12

(* The steps of a page that change its copy only.                          *)
LEMMA EditInv ==
  ASSUME Inv, NEW b \in Browsers, NEW e \in Edits, Edit(b, e)
  PROVE  Inv'
<1>1. PICK d \in Documents :
        Has[d] = Has[copy[b]] \cup {e} /\ copy' = [copy EXCEPT ![b] = d]
  BY DEF Edit
<1>2. /\ TypeOK /\ copy[b] # Null
      /\ UNCHANGED <<reg, call, answer, flight, falling, notice, kept, turn>>
  BY DEF Inv, Edit, store, history
<1>3. copy' \in [Browsers -> Copies] /\ copy'[b] = d /\ d # Null
      /\ \A c \in Browsers \ {b} : copy'[c] = copy[c]
  BY <1>1, <1>2 DEF TypeOK, Copies
<1>4. \A c \in Browsers : copy'[c] = Null \/ Has[copy[c]] \subseteq Has[copy'[c]]
  BY <1>1, <1>3
<1>5. \A c \in Browsers : copy[c] = Null => copy'[c] = Null
  BY <1>2, <1>3
<1>6. TypeOK' /\ CarefulKeepsEdits'
  BY <1>2, <1>3 DEF Inv, TypeOK, CarefulKeepsEdits
<1>7. \A g \in Handlers : CallInv(g)' /\ SaveInv(g)'
  BY <1>2 DEF Inv, CallInv, SaveInv, IsLoad, IsSave
<1>8. ASSUME turn # None PROVE CopyInv(turn)' /\ \A g \in Handlers : TurnInv(g, turn)'
  <2>1. turn \in Browsers /\ turn' = turn
    BY <1>2, <1>8 DEF TypeOK
  <2>2. CopyInv(turn)'
    BY <1>2, <1>4, <1>5, <1>8, <2>1 DEF Inv, CopyInv, IsLoad
  <2>3. \A g \in Handlers : TurnInv(g, turn)'
    BY <1>2, <1>4, <1>5, <1>8, <2>1 DEF Inv, TurnInv, IsLoad, IsSave
  <2> QED BY <2>2, <2>3
<1> QED BY <1>2, <1>6, <1>7, <1>8 DEF Inv

LEMMA ShowDefaultInv ==
  ASSUME Inv, NEW b \in Browsers, ShowDefault(b) \/ LoseDefault(b)
  PROVE  Inv'
<1>1. /\ TypeOK /\ falling' \in SUBSET Browsers
      /\ UNCHANGED <<reg, call, answer, flight, notice, kept>>
      /\ copy' \in {copy, [copy EXCEPT ![b] = Default]}
      /\ turn' \in {turn, None}
      /\ turn' # None => copy'[turn] = copy[turn]
  BY DEF Inv, ShowDefault, LoseDefault, store, history, TypeOK
<1>2. copy' \in [Browsers -> Copies]
  BY <1>1 DEF TypeOK, Copies
<1>3. TypeOK' /\ CarefulKeepsEdits'
  BY <1>1, <1>2 DEF Inv, TypeOK, CarefulKeepsEdits
<1>4. \A g \in Handlers : CallInv(g)' /\ SaveInv(g)'
  BY <1>1 DEF Inv, CallInv, SaveInv, IsLoad, IsSave
<1>5. ASSUME turn' # None PROVE CopyInv(turn)' /\ \A g \in Handlers : TurnInv(g, turn)'
  <2>1. turn' = turn /\ copy'[turn] = copy[turn]
    BY <1>1, <1>5
  <2>2. CopyInv(turn)'
    BY <1>1, <1>5, <2>1 DEF Inv, CopyInv, IsLoad
  <2>3. \A g \in Handlers : TurnInv(g, turn)'
    BY <1>1, <1>5, <2>1 DEF Inv, TurnInv, IsLoad, IsSave
  <2> QED BY <2>2, <2>3
<1> QED BY <1>3, <1>4, <1>5 DEF Inv

(* The daemon answers: a read has every edit that counts, and what it      *)
(* stores has them, or nothing counts.                                     *)
LEMMA ServeInv ==
  ASSUME Inv, NEW h \in Handlers, Serve(h)
  PROVE  Inv'
<1>1. /\ TypeOK /\ UNCHANGED <<call, flight, copy, falling, notice, kept, turn>>
      /\ call[h] # None /\ answer[h] = None
      /\ Register!Read(h) \/ Register!Store(h) \/ Register!Refuse(h)
  BY DEF Inv, Serve, pages, history, Register!Read, Register!Store, Register!Refuse,
     Register!Answer, Register!Pending
<1>2. CallInv(h) /\ SaveInv(h)
  BY DEF Inv
<1>3. PICK a \in Register!Answers : answer' = [answer EXCEPT ![h] = a]
  BY <1>1 DEF Register!Read, Register!Store, Register!Refuse, Register!Answer,
     Register!View, Register!Answers
<1>4. /\ answer' \in [Handlers -> Register!Answers] /\ answer'[h] = a
      /\ \A g \in Handlers \ {h} : answer'[g] = answer[g]
  BY <1>1, <1>3 DEF TypeOK
<1>5. CASE Register!Read(h) \/ Register!Refuse(h)
  <2>1. reg' = reg
    BY <1>5 DEF Register!Read, Register!Refuse
  <2>2. a = "error" \/ (IsLoad(h) /\ a = Register!View(h, reg))
    <3>1. Register!Read(h) => call[h] = Register!GetCall /\ a = Register!View(h, reg)
      BY <1>1, <1>3 DEF Register!Read, Register!Answer, TypeOK
    <3>2. call[h] = Register!GetCall => IsLoad(h)
      BY <1>1, <1>2 DEF CallInv, Register!GetCall
    <3>3. Register!Refuse(h) => a = "error"
      BY <1>1, <1>3 DEF Register!Refuse, Register!Answer, TypeOK
    <3> QED BY <1>5, <3>1, <3>2, <3>3
  <2>3. a \in Documents \cup {"error"} /\ (~IsLoad(h) => a = "error")
    BY <2>2 DEF Register!View
  <2>4. a # "error" => kept \subseteq Has[a]
    BY <2>2 DEF Register!View, Inv, CarefulKeepsEdits
  <2>5. TypeOK' /\ CarefulKeepsEdits'
    BY <1>1, <1>4, <2>1 DEF Inv, TypeOK, CarefulKeepsEdits
  <2>6. ASSUME NEW g \in Handlers PROVE CallInv(g)' /\ SaveInv(g)'
    <3>1. CASE g = h
      BY <1>1, <1>2, <1>4, <2>1, <2>3, <3>1 DEF Inv, CallInv, SaveInv, IsLoad, IsSave
    <3>2. CASE g # h
      BY <1>1, <1>4, <2>1, <3>2 DEF Inv, CallInv, SaveInv, IsLoad, IsSave
    <3> QED BY <3>1, <3>2
  <2>7. ASSUME turn # None PROVE CopyInv(turn)' /\ \A g \in Handlers : TurnInv(g, turn)'
    <3>1. CopyInv(turn)'
      BY <1>1, <2>7 DEF Inv, CopyInv, IsLoad
    <3>2. ASSUME NEW g \in Handlers PROVE TurnInv(g, turn)'
      <4>1. CASE g = h
        BY <1>1, <1>4, <2>4, <2>7, <4>1 DEF Inv, TurnInv, IsLoad, IsSave
      <4>2. CASE g # h
        BY <1>1, <1>4, <2>7, <4>2 DEF Inv, TurnInv, IsLoad, IsSave
      <4> QED BY <4>1, <4>2
    <3> QED BY <3>1, <3>2
  <2> QED BY <1>1, <2>5, <2>6, <2>7 DEF Inv
<1>6. CASE Register!Store(h)
  <2>1. /\ call[h] # Register!GetCall /\ call[h].doc \in Documents /\ reg' = call[h].doc
        /\ a = "saved"
    BY <1>1, <1>3, <1>6 DEF Register!Store, Register!Answer, TypeOK
  <2>2. ~IsLoad(h) /\ flight[h] # None /\ flight[h].kind \in {"save", "rash"}
    BY <1>1, <1>2, <2>1 DEF CallInv, IsLoad, TypeOK, Kind
  <2>3. kept \subseteq Has[call[h].doc]
    BY <1>1, <1>2, <2>1, <2>2 DEF SaveInv, IsSave
  <2>4. TypeOK' /\ CarefulKeepsEdits'
    BY <1>1, <1>4, <2>1, <2>3 DEF TypeOK, CarefulKeepsEdits
  <2>5. ASSUME NEW g \in Handlers PROVE CallInv(g)' /\ SaveInv(g)'
    <3>1. CASE g = h
      BY <1>1, <1>2, <1>4, <2>1, <2>2, <3>1 DEF Inv, CallInv, SaveInv, IsLoad, IsSave
    <3>2. CASE g # h
      <4>1. CallInv(g)'
        BY <1>1, <1>4, <3>2 DEF Inv, CallInv, IsLoad
      <4>2. IsSave(h, "save") \/ IsSave(h, "rash")
        BY <2>2 DEF IsSave
      <4>3. ~IsSave(g, "save")
        BY <3>2, <4>2 DEF Inv, SaveInv
      <4>4. SaveInv(g)'
        BY <1>1, <4>3 DEF Inv, SaveInv, IsSave
      <4> QED BY <4>1, <4>4
    <3> QED BY <3>1, <3>2
  <2>6. ASSUME turn # None PROVE CopyInv(turn)' /\ \A g \in Handlers : TurnInv(g, turn)'
    <3>1. CopyInv(turn)'
      BY <1>1, <2>6 DEF Inv, CopyInv, IsLoad
    <3>2. ASSUME NEW g \in Handlers PROVE TurnInv(g, turn)'
      <4>1. CASE g = h
        BY <1>1, <1>4, <2>2, <2>6, <4>1 DEF Inv, TurnInv, IsLoad, IsSave
      <4>2. CASE g # h
        BY <1>1, <1>4, <2>6, <4>2 DEF Inv, TurnInv, IsLoad, IsSave
      <4> QED BY <4>1, <4>2
    <3> QED BY <3>1, <3>2
  <2> QED BY <1>1, <2>4, <2>5, <2>6 DEF Inv
<1> QED BY <1>1, <1>5, <1>6

LEMMA RestartInv ==
  ASSUME Inv, Restart
  PROVE  Inv'
<1>1. /\ TypeOK /\ UNCHANGED <<reg, flight, copy, falling, notice, kept, turn>>
      /\ \A g \in Handlers : call'[g] = None /\ answer'[g] = None
      /\ call' \in [Handlers -> Register!AllCalls \cup {None}]
      /\ answer' \in [Handlers -> Register!Answers]
  BY DEF Inv, Restart, pages, history, Register!Forget, Register!Proc, Register!Answers
<1>2. TypeOK' /\ CarefulKeepsEdits'
  BY <1>1 DEF Inv, TypeOK, CarefulKeepsEdits
<1>3. \A g \in Handlers : CallInv(g)' /\ SaveInv(g)'
  BY <1>1 DEF Inv, CallInv, SaveInv, IsLoad, IsSave
<1>4. turn # None => CopyInv(turn)' /\ \A g \in Handlers : TurnInv(g, turn)'
  BY <1>1 DEF Inv, CopyInv, TurnInv, IsLoad, IsSave
<1> QED BY <1>1, <1>2, <1>3, <1>4 DEF Inv

-----------------------------------------------------------------------------
(* The theorems.                                                           *)

LEMMA InitInv == Init => Inv
<1> SUFFICES ASSUME Init PROVE Inv
  OBVIOUS
<1>1. TypeOK
  BY DEF Init, TypeOK, Copies, Register!Answers
<1>2. CarefulKeepsEdits
  BY DEF Init, CarefulKeepsEdits
<1> QED BY <1>1, <1>2 DEF Init, Inv, CallInv, SaveInv, IsLoad, IsSave

LEMMA StepInv == Inv /\ [Next]_vars => Inv'
<1> SUFFICES ASSUME Inv, [Next]_vars PROVE Inv'
  OBVIOUS
<1>1. ASSUME NEW b \in Browsers, NEW h \in Handlers, Click(b, h) PROVE Inv'
  BY <1>1, OpenInv, ReloadInv, SaveClickInv DEF Click
<1>2. ASSUME NEW h \in Handlers, Receive(h) PROVE Inv'
  BY <1>2, LoadedInv, SavedInv, FailedInv, UnheardInv DEF Receive
<1>3. CASE UNCHANGED vars
  <2>1. UNCHANGED <<reg, call, answer, flight, copy, falling, notice, kept, turn>>
    BY <1>3 DEF vars, store, pages, history
  <2>2. TypeOK' /\ CarefulKeepsEdits'
    BY <2>1 DEF Inv, TypeOK, CarefulKeepsEdits
  <2>3. \A g \in Handlers : CallInv(g)' /\ SaveInv(g)'
    BY <2>1 DEF Inv, CallInv, SaveInv, IsLoad, IsSave
  <2>4. turn # None => CopyInv(turn)' /\ \A g \in Handlers : TurnInv(g, turn)'
    BY <2>1 DEF Inv, CopyInv, TurnInv, IsLoad, IsSave
  <2> QED BY <2>1, <2>2, <2>3, <2>4 DEF Inv
<1> QED BY <1>1, <1>2, <1>3, EditInv, ShowDefaultInv, ServeInv, RestartInv DEF Next

(* The variables keep their types; in particular an answer that no message *)
(* calls an error has replaced a copy by a document, or by nothing.        *)
THEOREM TypeCorrect == Spec => []TypeOK
<1>1. Inv => TypeOK
  BY DEF Inv
<1> QED BY <1>1, InitInv, StepInv, PTL DEF Spec

(* The edits of administrators who take turns and heed what their page     *)
(* says stay in the file, for any number of pages and of calls under way   *)
(* (app.js: load, saveConfig; server.go: handleConfig).                    *)
THEOREM CarefulEditsKept == Spec => []CarefulKeepsEdits
<1>1. Inv => CarefulKeepsEdits
  BY DEF Inv
<1> QED BY <1>1, InitInv, StepInv, PTL DEF Spec
=============================================================================
