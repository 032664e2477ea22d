------------------------------- MODULE WebUI --------------------------------
(***************************************************************************)
(* web/app.js: browsers that load the configuration, edit their copy of it *)
(* and save the whole of it again, over the register ConfigRegister        *)
(* promises.  Any number of calls of a page may be under way at once, for  *)
(* no button waits for another, and the daemon may end with all of them.   *)
(*                                                                         *)
(* Preview and Apply send the copy and change neither it nor the file.     *)
(*                                                                         *)
(* An operator that stands before another and is not used is a plausible   *)
(* bug of it, to see that the properties tell it from the code.            *)
(***************************************************************************)
EXTENDS FiniteSets

CONSTANTS
  Browsers,  \* pages of the web UI
  Edits,     \* what can be changed in a document
  Documents, \* the documents
  Has,       \* per document: the edits in it
  Default,   \* the document of /api/default-config
  Site,      \* the configuration at the start
  Sparse,    \* the edits that leave a list out: Go writes it as null
  Handlers,  \* requests the daemon serves at a time
  Null,      \* the copy before the first load, a document without a version
  Torn,      \* bytes that are no document
  NoFile,    \* the path does not exist
  None       \* no call, no answer, nobody

(* A save is rash if it was clicked without the care Careful describes, or *)
(* if another one was clicked before its answer came.                      *)
Kind == {"open", "load", "save", "rash"}
Copies == Documents \cup {Null}

ASSUME WebAssumption ==
  /\ {Default, Site} \subseteq Documents
  /\ Has \in [Documents -> SUBSET Edits]
  /\ Sparse \subseteq Edits
  /\ Null \notin Documents
ASSUME NoneAssumption ==
  /\ None \notin Browsers \cup Documents \cup {Null, Torn, NoFile, "saved", "error"}
  /\ None \notin [browser : Browsers \cup {None}, kind : Kind]
  /\ \A o \in {"get", "put"}, d \in Copies \cup {NoFile} : None # [op |-> o, doc |-> d]

VARIABLES
  reg,      \* the file
  call,     \* per handler: the request it serves
  answer,   \* per handler: its answer
  flight,   \* per handler: whose call of app.js it serves, and which
  copy,     \* per browser: state.config
  falling,  \* the browsers that wait for /api/default-config
  notice,   \* per browser: is it open, and the last message an error
  kept,     \* the edits in documents that were saved with care and that
            \* "Config saved." was said of, since the last rash save
  turn      \* who asked for the file last, if nobody was saving then and
            \* his page does not show the default document instead

Register == INSTANCE ConfigRegister WITH
  Clis <- {}, Good <- Documents, Bad <- {Null}, DefaultConfig <- Default

store == <<reg, call, answer>>
pages == <<copy, falling, notice>>
history == <<kept, turn>>
vars == <<store, flight, pages, history>>

TypeOK ==
  /\ reg \in Documents \cup {Null, Torn, NoFile}
  /\ call \in [Handlers -> Register!AllCalls \cup {None}]
  /\ answer \in [Handlers -> Register!Answers]
  /\ flight \in [Handlers -> [browser : Browsers \cup {None}, kind : Kind] \cup {None}]
  /\ copy \in [Browsers -> Copies]
  /\ falling \subseteq Browsers
  /\ notice \in [Browsers -> {"closed", "fine", "error"}]
  /\ kept \subseteq Edits
  /\ turn \in Browsers \cup {None}

Init ==
  /\ reg \in {Site, Torn, NoFile}
  /\ call = [h \in Handlers |-> None]
  /\ answer = [h \in Handlers |-> None]
  /\ flight = [h \in Handlers |-> None]
  /\ copy = [b \in Browsers |-> Null]
  /\ falling = {}
  /\ notice = [b \in Browsers |-> "closed"]
  /\ kept = IF reg = Site THEN Has[Site] ELSE {}
  /\ turn = None

-----------------------------------------------------------------------------
(* Clicks.                                                                 *)

Saving == {h \in Handlers : flight[h] # None /\ flight[h].kind \in {"save", "rash"}}
Quiet == \A h \in Handlers : flight[h] = None

(* others: what the click makes of the calls under way.                    *)
Ask(b, h, kind, request, others) ==
  /\ flight[h] = None
  /\ Register!Invoke(h)
  /\ call'[h] = request
  /\ flight' = [others EXCEPT ![h] = [browser |-> b, kind |-> kind]]

(* b asks for the file as the last save has left it.                       *)
TakeTurn(b) ==
  /\ turn' = IF Saving = {} /\ (Quiet \/ turn # None) THEN b ELSE None
  /\ UNCHANGED kept

(* The daemon serves what a script that has ended asked for, but nobody    *)
(* gets the answers.                                                       *)
Left(b) ==
  [h \in Handlers |->
     IF flight[h] # None /\ flight[h].browser = b
     THEN [flight[h] EXCEPT !.browser = None] ELSE flight[h]]

(* The page is opened, or opened again.                                    *)
Open(b, h) ==
  /\ Ask(b, h, "open", Register!GetCall, Left(b))
  /\ copy' = [copy EXCEPT ![b] = Null]
  /\ falling' = falling \ {b}
  /\ notice' = [notice EXCEPT ![b] = "fine"]
  /\ TakeTurn(b)

(* The buttons work from the first moment, before anything was loaded.     *)
Opened(b) == notice[b] # "closed"

Reload(b, h) ==
  /\ Opened(b)
  /\ Ask(b, h, "load", Register!GetCall, flight)
  /\ TakeTurn(b)
  /\ UNCHANGED pages

(* Fields and the raw editor change the copy.                              *)
Edit(b, e) ==
  /\ copy[b] # Null
  /\ e \notin Has[copy[b]]
  /\ \E d \in Documents : Has[d] = Has[copy[b]] \cup {e} /\ copy' = [copy EXCEPT ![b] = d]
  /\ UNCHANGED <<store, flight, falling, notice, history>>

(* What an administrator can see to: no call is under way, nobody else has *)
(* asked for the file after him, and no error was shown.                   *)
Careful(b) == Quiet /\ turn = b /\ notice[b] # "error"

Overtaken ==
  [h \in Handlers |->
     IF h \in Saving THEN [flight[h] EXCEPT !.kind = "rash"] ELSE flight[h]]

Save(b, h) ==
  /\ Opened(b)
  /\ Ask(b, h, IF Careful(b) THEN "save" ELSE "rash", Register!PutCall(copy[b]), Overtaken)
  /\ kept' = IF Careful(b) THEN kept ELSE {}
  /\ UNCHANGED <<pages, turn>>

-----------------------------------------------------------------------------
(* Answers.                                                                *)

Waits(h, kind) == flight[h] # None /\ flight[h].browser # None /\ flight[h].kind \in kind

Deliver(h, kind) ==
  /\ Waits(h, kind)
  /\ answer[h] # None
  /\ Register!Forget({h})
  /\ flight' = [flight EXCEPT ![h] = None]

(* The daemon has ended meanwhile.                                         *)
Break(h, kind) ==
  /\ Waits(h, kind)
  /\ call[h] = None
  /\ flight' = [flight EXCEPT ![h] = None]
  /\ UNCHANGED store

Browser(h) == flight[h].browser
Say(b, text) == notice' = [notice EXCEPT ![b] = text]

(* Only the load of a page that opens falls back.                          *)
Fallback(b, kind) == falling' = IF kind = "open" THEN falling \cup {b} ELSE falling

(* What api returns to load(): an answer cut off after its header is the   *)
(* object {}, which has no version either.                                 *)
GotUnchecked(h) == Deliver(h, {"open", "load"}) \/ Break(h, {"open", "load"})
Got(h) ==
  \/ Deliver(h, {"open", "load"}) /\ answer[h] # "error"
  \/ Break(h, {"open", "load"})
Config(h) == IF call[h] = None THEN Null ELSE answer[h]

(* The dashboard, which the page opens with, takes the length of lists and *)
(* throws when one is null; the tab a later load renders may not need it.  *)
Lacking(doc) == doc \notin {d \in Documents : Has[d] \cap Sparse = {}}

(* `Configuration loaded.`                                                 *)
Loaded(h) ==
  /\ Got(h)
  /\ flight[h].kind = "open" => ~Lacking(Config(h))
  /\ copy' = [copy EXCEPT ![Browser(h)] = Config(h)]
  /\ Say(Browser(h), "fine")
  /\ UNCHANGED <<falling, history>>

(* load() fails after it has replaced the copy.                            *)
Unrendered(h) ==
  /\ Got(h)
  /\ Lacking(Config(h))
  /\ copy' = [copy EXCEPT ![Browser(h)] = Config(h)]
  /\ Say(Browser(h), "error")
  /\ Fallback(Browser(h), flight[h].kind)
  /\ UNCHANGED history

SavedUnchecked(h) ==
  /\ Deliver(h, {"save", "rash"})
  /\ Say(Browser(h), "fine")
  /\ kept' = IF flight[h].kind = "save" /\ call[h].doc # Null
             THEN kept \cup Has[call[h].doc] ELSE kept
  /\ UNCHANGED <<copy, falling, turn>>

(* `Config saved.`                                                         *)
Saved(h) ==
  /\ Deliver(h, {"save", "rash"})
  /\ answer[h] # "error"
  /\ Say(Browser(h), "fine")
  /\ kept' = IF flight[h].kind = "save" THEN kept \cup Has[call[h].doc] ELSE kept
  /\ UNCHANGED <<copy, falling, turn>>

(* api throws, and the click's handler shows the error.                    *)
Failed(h) ==
  /\ Deliver(h, Kind)
  /\ answer[h] = "error"
  /\ Say(Browser(h), "error")
  /\ Fallback(Browser(h), flight[h].kind)
  /\ UNCHANGED <<copy, history>>

Disconnected(h) ==
  /\ Break(h, Kind)
  /\ Say(Browser(h), "error")
  /\ Fallback(Browser(h), flight[h].kind)
  /\ UNCHANGED <<copy, history>>

(* The page of the call is gone.                                           *)
Unheard(h) ==
  /\ flight[h] # None
  /\ flight[h].browser = None
  /\ \/ answer[h] # None /\ Register!Forget({h})
     \/ call[h] = None /\ UNCHANGED store
  /\ flight' = [flight EXCEPT ![h] = None]
  /\ UNCHANGED <<pages, history>>

(* No message says that either; it may be long after an error, and after a *)
(* Reload that went well.                                                  *)
ShowDefault(b) ==
  /\ b \in falling
  /\ falling' = falling \ {b}
  /\ copy' = [copy EXCEPT ![b] = Default]
  /\ turn' = IF turn = b THEN None ELSE turn
  /\ UNCHANGED <<store, flight, notice, kept>>

(* The answer never comes; no message says so.                             *)
LoseDefault(b) ==
  /\ b \in falling
  /\ falling' = falling \ {b}
  /\ UNCHANGED <<store, flight, copy, notice, history>>

-----------------------------------------------------------------------------
(* The daemon.                                                             *)

Serve(h) ==
  /\ Register!Read(h) \/ Register!Store(h) \/ Register!Refuse(h)
  /\ UNCHANGED <<flight, pages, history>>
Restart ==
  /\ \E h \in Handlers : call[h] # None
  /\ Register!Forget(Handlers)
  /\ UNCHANGED <<flight, pages, history>>

Click(b, h) == Open(b, h) \/ Reload(b, h) \/ Save(b, h)
Receive(h) ==
  \/ Loaded(h) \/ Unrendered(h) \/ Saved(h) \/ Failed(h) \/ Disconnected(h)
  \/ Unheard(h)

Next ==
  \/ \E b \in Browsers, h \in Handlers : Click(b, h)
  \/ \E b \in Browsers, e \in Edits : Edit(b, e)
  \/ \E b \in Browsers : ShowDefault(b) \/ LoseDefault(b)
  \/ \E h \in Handlers : Serve(h) \/ Receive(h)
  \/ Restart

Spec == Init /\ [][Next]_vars

-----------------------------------------------------------------------------
(* A configuration is saved whole and without a version, so the edits of   *)
(* two administrators survive only if they take turns and look at what     *)
(* their page shows.  Then they do: what "Config saved." was said of is in *)
(* the file for good, whatever fails, is cut off, answers late or falls    *)
(* back to the default document (app.js: load, saveConfig and the fallback *)
(* of the first load; server.go: handleConfig).                            *)
CarefulKeepsEdits == kept # {} => reg \in Documents /\ kept \subseteq Has[reg]
=============================================================================
