--------------------------- MODULE ShopImportProofs ---------------------------
(***************************************************************************)
(* A row of an import is written once, for any number of rows, requests,   *)
(* calls, listings and changes from elsewhere.  The strengthening says     *)
(* that the audit row and the write it stands for come together: the       *)
(* number of writes is 1 where the saved result is CREATED or UPDATED, and *)
(* 0 elsewhere.  Every transaction asks for the audit row first.           *)
(* And a row never replaces what the shop was not shown: what a preview    *)
(* says of a listing was read once and is no newer than the listing, so    *)
(* an unchanged stamp stands for unchanged contents.                       *)
(***************************************************************************)
EXTENDS ShopImport, TLAPS

WriteIsSaved ==
  \A q \in Requests, r \in Rows :
    written[q][r] = IF audit[q][r] \in {"CREATED", "UPDATED"} THEN 1 ELSE 0

IInv == TypeOK /\ WriteIsSaved

-----------------------------------------------------------------------------
(* Results of a call                                                       *)

\* No row has a result yet.
LEMMA NoResult == <<>> \in Result
<1>1. <<>> \in [{} -> Outcome \cup {"FAILED", "READ"}]  OBVIOUS
<1>2. {} \in SUBSET Rows  OBVIOUS
<1> QED  BY <1>1, <1>2 DEF Result

\* The result of one more row.
LEMMA OneMoreResult ==
  ASSUME NEW f \in Result, NEW r \in Rows, NEW o \in Outcome \cup {"FAILED", "READ"}
  PROVE  With(f, r, o) \in Result
<1>1. PICK S \in SUBSET Rows : f \in [S -> Outcome \cup {"FAILED", "READ"}]  BY DEF Result
<1>2. With(f, r, o) \in [S \cup {r} -> Outcome \cup {"FAILED", "READ"}]
  BY <1>1 DEF With
<1>3. S \cup {r} \in SUBSET Rows  BY <1>1
<1> QED  BY <1>2, <1>3 DEF Result

\* A new call has its sheet's rows before it.
LEMMA NewCall ==
  ASSUME NEW kind \in {"preview", "upload"}, NEW q \in Requests, sheet'[q] \in Sheets
  PROVE  Call(kind, q) \in CallOn /\ Call(kind, q) # None
<1>1. sheet'[q].rows \in SUBSET Rows  BY ImportAssumption
<1>2. Call(kind, q) \in CallOn  BY <1>1, NoResult DEF Call, CallOn
<1> QED  BY <1>2, AbsentAssumption

\* One row is worked off: the calls are those there were, of the same requests,
\* and the one the screen waits for is still there.
LEMMA RowAnswered ==
  ASSUME CallsOK, NEW n \in Calls, NEW kind, NEW r \in Rows,
         NEW o \in Outcome \cup {"FAILED", "READ"},
         Turn(n, kind, r), Answered(n, r, o), UNCHANGED <<sheet, screen>>
  PROVE  CallsOK'
<1>1. calls[n] \in CallOn /\ calls[n] # None  BY DEF CallsOK, Turn
<1> DEFINE next == [calls[n] EXCEPT !.todo = @ \ {r}, !.result = With(@, r, o)]
<1>2. With(calls[n].result, r, o) \in Result  BY <1>1, OneMoreResult DEF CallOn
<1>3. /\ next \in CallOn
      /\ next.request = calls[n].request /\ next.kind = calls[n].kind
  BY <1>1, <1>2 DEF CallOn
<1>4. \/ calls' = [calls EXCEPT ![n] = None] /\ screen.call # n
      \/ calls' = [calls EXCEPT ![n] = next]
  BY DEF Answered, CallsOK
<1>5. next # None  BY <1>3, AbsentAssumption
<1> HIDE DEF next
<1> QED  BY <1>1, <1>3, <1>4, <1>5 DEF CallsOK

\* The request a call at work is for.
LEMMA AtWork ==
  ASSUME CallsOK, NEW n \in Calls, calls[n] # None
  PROVE  calls[n] \in CallOn /\ calls[n].request \in Requests
BY DEF CallsOK, CallOn

-----------------------------------------------------------------------------
(* Calls and screens                                                       *)

LEMMA InitCallsOK == Init => CallsOK
BY NoResult, ImportAssumption DEF Init, CallsOK, Fresh

LEMMA SendsKeepCalls ==
  ASSUME CallsOK, NEW n \in Calls, NEW q \in Requests, NEW s \in Sheets,
         Review(n, q, s) \/ SubmitSelected(n, q, s) \/ Commit(n)
  PROVE  CallsOK'
<1> USE DEF CallsOK
<1>1. CASE Review(n, q, s)
  <2>1. sheet'[q] \in Sheets /\ Call("preview", q) \in CallOn /\ Call("preview", q) # None
    BY <1>1, NewCall DEF Review
  <2>2. Call("preview", q).request = q /\ Call("preview", q).kind = "preview"
    BY DEF Call
  <2>3. calls' = [calls EXCEPT ![n] = Call("preview", q)] /\ sheet' = [sheet EXCEPT ![q] = s]
        /\ screen' = [screen EXCEPT !.call = n] /\ screen.call = None /\ calls[n] = None
    BY <1>1 DEF Review, Send
  <2> QED  BY <2>1, <2>2, <2>3, ImportAssumption
<1>2. CASE SubmitSelected(n, q, s)
  <2>1. sheet'[q] \in Sheets /\ Call("upload", q) \in CallOn /\ Call("upload", q) # None
    BY <1>2, NewCall DEF SubmitSelected
  <2>2. Call("upload", q).request = q
    BY DEF Call
  <2>3. calls' = [calls EXCEPT ![n] = Call("upload", q)] /\ sheet' = [sheet EXCEPT ![q] = s]
        /\ screen' = [step |-> "selected", request |-> q, result |-> <<>>, call |-> n]
        /\ screen.call = None /\ calls[n] = None
    BY <1>2 DEF SubmitSelected, Send
  <2> QED  BY <2>1, <2>2, <2>3, NoResult, ImportAssumption
<1>3. CASE Commit(n)
  <2> DEFINE p == screen.request
  <2>1. p \in Requests /\ sheet[p] \in Sheets  BY <1>3 DEF Commit
  <2>2. sheet' = sheet  BY <1>3 DEF Commit
  <2>3. Call("upload", p) \in CallOn /\ Call("upload", p) # None  BY <2>1, <2>2, NewCall
  <2>4. Call("upload", p).request = p  BY DEF Call
  <2>5. calls' = [calls EXCEPT ![n] = Call("upload", p)]
        /\ screen' = [screen EXCEPT !.call = n] /\ screen.call = None /\ calls[n] = None
    BY <1>3 DEF Commit, Send
  <2> QED  BY <2>1, <2>2, <2>3, <2>4, <2>5, ImportAssumption
<1> QED  BY <1>1, <1>2, <1>3

LEMMA ScreenKeepsCalls ==
  ASSUME CallsOK,
         \/ \E n \in Calls : Reviewed(n) \/ Committed(n) \/ Lose(n)
         \/ ChangeMapping \/ Close \/ GiveUp
  PROVE  CallsOK'
<1> USE DEF CallsOK
<1>1. ASSUME NEW n \in Calls, Reviewed(n)  PROVE CallsOK'
  <2>1. calls[n] \in CallOn /\ calls[n] # None  BY <1>1, ImportAssumption DEF Reviewed, Answer
  <2>2. calls[n].request \in Requests /\ sheet[calls[n].request] # None  BY <2>1 DEF CallOn
  <2> QED  BY <1>1, <2>1, <2>2, NoResult, ImportAssumption DEF Reviewed, Answer
<1>2. ASSUME NEW n \in Calls, Committed(n)  PROVE CallsOK'
  <2>1. calls[n] \in CallOn /\ calls[n] # None  BY <1>2, ImportAssumption DEF Committed, Answer
  <2>2. calls[n].result \in Result  BY <2>1 DEF CallOn
  <2>3. screen.request # None /\ sheet[screen.request] # None
    BY <1>2, ImportAssumption DEF Committed, Answer
  <2> QED  BY <1>2, <2>1, <2>2, <2>3, ImportAssumption DEF Committed, Answer
<1>3. ASSUME NEW n \in Calls, Lose(n)  PROVE CallsOK'
  BY <1>3, ImportAssumption DEF Lose
<1>4. CASE ChangeMapping
  BY <1>4 DEF ChangeMapping
<1>5. CASE Close
  BY <1>5, NoResult DEF Close, Fresh
<1>6. CASE GiveUp
  BY <1>6 DEF GiveUp
<1> QED  BY <1>1, <1>2, <1>3, <1>4, <1>5, <1>6

\* A call that begins only looks at its token.
LEMMA BeginKeepsCalls ==
  ASSUME CallsOK, NEW n \in Calls, Begin(n)
  PROVE  CallsOK'
<1> DEFINE late == calls[n].request \in expired
<1> DEFINE next == [calls[n] EXCEPT !.begun = TRUE, !.late = late]
<1>0. late \in BOOLEAN  OBVIOUS
<1>1. calls[n] \in CallOn /\ calls[n] # None  BY DEF CallsOK, Begin
<1>3. calls' = [calls EXCEPT ![n] = next] /\ UNCHANGED <<sheet, screen>>
  BY DEF Begin, CallsOK
<1> HIDE DEF late
<1>2. /\ next \in CallOn
      /\ next.request = calls[n].request /\ next.kind = calls[n].kind
  BY <1>0, <1>1 DEF CallOn
<1>4. next # None  BY <1>2, AbsentAssumption
<1> HIDE DEF next
<1> QED  BY <1>1, <1>2, <1>3, <1>4 DEF CallsOK

-----------------------------------------------------------------------------
(* Rows                                                                    *)

RowStep(n, r) ==
  \/ PreviewRow(n, r) \/ SkipRow(n, r) \/ CreateProduct(n, r) \/ CreateListing(n, r)
  \/ UpdateListing(n, r) \/ ReplayRow(n, r) \/ FailRow(n, r)

LEMMA RowsKeepCalls ==
  ASSUME TypeOK, NEW n \in Calls, NEW r \in Rows, RowStep(n, r)
  PROVE  CallsOK'
<1>1. CASE PreviewRow(n, r)
  BY <1>1, RowAnswered DEF PreviewRow, TypeOK
<1>2. CASE ReplayRow(n, r)
  <2>1. calls[n].request \in Requests  BY <1>2, AtWork DEF ReplayRow, Turn, TypeOK
  <2>2. audit[calls[n].request][r] \in Outcome  BY <1>2, <2>1 DEF ReplayRow, TypeOK, RowsOK
  <2> QED  BY <1>2, <2>2, RowAnswered DEF ReplayRow, TypeOK
<1>3. CASE FailRow(n, r)
  BY <1>3, RowAnswered DEF FailRow, TypeOK
<1>4. CASE SkipRow(n, r)
  BY <1>4, RowAnswered DEF SkipRow, Save, Unsaved, Outcome, TypeOK
<1>5. CASE CreateProduct(n, r)
  BY <1>5, RowAnswered DEF CreateProduct, Save, Unsaved, Outcome, TypeOK
<1>6. CASE CreateListing(n, r)
  BY <1>6, RowAnswered DEF CreateListing, Save, Unsaved, Outcome, TypeOK
<1>7. CASE UpdateListing(n, r)
  BY <1>7, RowAnswered DEF UpdateListing, Save, Unsaved, Outcome, TypeOK
<1> QED  BY <1>1, <1>2, <1>3, <1>4, <1>5, <1>6, <1>7 DEF RowStep

\* Whose preview row is out of date now.
LEMMA TouchTyped ==
  ASSUME RowsOK, NEW r \in Rows
  PROVE  Touch(r) \in [Requests -> SUBSET Rows]
BY DEF RowsOK, Touch

\* A row is written in the transaction that saves that it was, and only then.
LEMMA WritesAreSaved ==
  ASSUME IInv, NEW n \in Calls, NEW r \in Rows, RowStep(n, r)
  PROVE  RowsOK' /\ WriteIsSaved'
<1> DEFINE q == calls[n].request
<1>1. calls[n] # None  BY DEF RowStep, PreviewRow, SkipRow, CreateProduct, CreateListing,
                            UpdateListing, ReplayRow, FailRow, Unsaved, Turn
<1>2. q \in Requests  BY <1>1, AtWork DEF IInv, TypeOK
<1>3. r \in Listed \/ r \in New  BY DEF Rows
<1>4. sheet[q] \in Sheets /\ sheet[q].stock \in Nat
  BY <1>1, <1>2, ImportAssumption DEF IInv, TypeOK, CallsOK
<1> HIDE DEF q
<1>5. CASE PreviewRow(n, r) \/ ReplayRow(n, r) \/ FailRow(n, r)
  BY <1>5
     DEF PreviewRow, ReplayRow, FailRow, shelf, history, tokens, IInv, TypeOK, RowsOK,
         WriteIsSaved
<1>6. ASSUME NEW o \in Outcome, o # "SKIPPED", audit[q][r] = None,
             audit' = Saved(q, r, o), Wrote(q, r), UNCHANGED expired,
             listing' \in [Listed -> [stock : Nat, stamp : Nat] \cup {None}],
             named' \in [New -> Nat]
      PROVE  RowsOK' /\ WriteIsSaved'
  <2>1. written[q][r] = 0
    BY <1>2, <1>6, AbsentAssumption DEF Outcome, IInv, WriteIsSaved
  <2>2. RowsOK'
    BY <1>2, <1>6, TouchTyped DEF Saved, Wrote, IInv, TypeOK, RowsOK
  <2>3. WriteIsSaved'
    BY <1>2, <1>6, <2>1 DEF Saved, Wrote, Outcome, IInv, TypeOK, RowsOK, WriteIsSaved
  <2> QED  BY <2>2, <2>3
<1>7. ASSUME audit[q][r] = None, audit' = Saved(q, r, "SKIPPED"), UNCHANGED <<expired, shelf, history>>
      PROVE  RowsOK' /\ WriteIsSaved'
  <2>1. RowsOK'
    BY <1>2, <1>7 DEF Saved, shelf, history, Outcome, IInv, TypeOK, RowsOK
  <2>2. WriteIsSaved'
    BY <1>2, <1>7, AbsentAssumption
       DEF Saved, shelf, history, Outcome, IInv, TypeOK, RowsOK, WriteIsSaved
  <2> QED  BY <2>1, <2>2
<1>8. CASE SkipRow(n, r)
  BY <1>7, <1>8 DEF SkipRow, Unsaved, Save, tokens, q
<1>9. CASE CreateProduct(n, r)
  <2>1. named' \in [New -> Nat]  BY <1>9 DEF CreateProduct, IInv, TypeOK, RowsOK
  <2>2. listing' \in [Listed -> [stock : Nat, stamp : Nat] \cup {None}]
    BY <1>9 DEF CreateProduct, IInv, TypeOK, RowsOK
  <2> QED  BY <1>6, <1>9, <2>1, <2>2 DEF CreateProduct, Unsaved, Save, Outcome, tokens, q
<1>10. CASE CreateListing(n, r)
  <2>1. named' \in [New -> Nat]  BY <1>10 DEF CreateListing, IInv, TypeOK, RowsOK
  <2>2. CASE listing[r] = None
    <3>1. listing' \in [Listed -> [stock : Nat, stamp : Nat] \cup {None}]
      BY <1>4, <1>10, <2>2 DEF CreateListing, IInv, TypeOK, RowsOK, q
    <3> QED  BY <1>6, <1>10, <2>1, <2>2, <3>1 DEF CreateListing, Unsaved, Save, Outcome, tokens, q
  <2>3. CASE listing[r] # None
    BY <1>7, <1>10, <2>3 DEF CreateListing, Unsaved, Save, shelf, tokens, q
  <2> QED  BY <2>2, <2>3
<1>11. CASE UpdateListing(n, r)
  <2>1. named' \in [New -> Nat]  BY <1>11 DEF UpdateListing, IInv, TypeOK, RowsOK
  <2>2. listing[r] \in [stock : Nat, stamp : Nat]
    BY <1>11 DEF UpdateListing, AsShown, IInv, TypeOK, RowsOK
  <2>3. [stock |-> sheet[q].stock, stamp |-> listing[r].stamp + 1] \in [stock : Nat, stamp : Nat]
    BY <1>4, <2>2
  <2>4. listing' \in [Listed -> [stock : Nat, stamp : Nat] \cup {None}]
    BY <1>11, <2>3 DEF UpdateListing, IInv, TypeOK, RowsOK, q
  <2> QED  BY <1>6, <1>11, <2>1, <2>4 DEF UpdateListing, Unsaved, Save, Outcome, tokens, q
<1> QED  BY <1>5, <1>8, <1>9, <1>10, <1>11 DEF RowStep

-----------------------------------------------------------------------------
LEMMA InvariantInit == Init => IInv
<1> SUFFICES ASSUME Init PROVE IInv  OBVIOUS
<1>1. CallsOK  BY InitCallsOK
<1>2. RowsOK
  <2>1. listing \in [Listed -> [stock : Nat, stamp : Nat] \cup {None}]
    <3>1. {None} \cup [stock : Stocks, stamp : {0}] \subseteq [stock : Nat, stamp : Nat] \cup {None}
      BY ImportAssumption
    <3> QED  BY <3>1 DEF Init
  <2>2. named \in [New -> Nat]  BY DEF Init
  <2>3. audit \in [Requests -> [Rows -> Outcome \cup {None}]]  BY DEF Init
  <2>4. touched \in [Requests -> SUBSET Rows]  BY DEF Init
  <2> QED  BY <2>1, <2>2, <2>3, <2>4 DEF Init, RowsOK
<1>3. WriteIsSaved  BY AbsentAssumption DEF Init, WriteIsSaved, Outcome
<1> QED  BY <1>1, <1>2, <1>3 DEF IInv, TypeOK

\* Every step keeps the shapes, and what is written saved.
LEMMA InvariantStep == IInv /\ [Next]_vars => IInv'
<1> SUFFICES ASSUME IInv, [Next]_vars PROVE IInv'  OBVIOUS
<1>1. CASE UNCHANGED vars
  BY <1>1 DEF vars, shelf, tokens, history, IInv, TypeOK, CallsOK, RowsOK, WriteIsSaved
<1>2. ASSUME NEW n \in Calls, NEW r \in Rows, RowStep(n, r)  PROVE IInv'
  <2>1. CallsOK'  BY <1>2, RowsKeepCalls DEF IInv
  <2>2. RowsOK' /\ WriteIsSaved'  BY <1>2, WritesAreSaved
  <2> QED  BY <2>1, <2>2 DEF IInv, TypeOK
<1>3. ASSUME CallsOK', UNCHANGED <<shelf, audit, expired, history>>  PROVE IInv'
  BY <1>3 DEF shelf, history, IInv, TypeOK, RowsOK, WriteIsSaved
<1>4. ASSUME NEW n \in Calls, NEW q \in Requests, NEW s \in Sheets,
             Review(n, q, s) \/ SubmitSelected(n, q, s)  PROVE IInv'
  <2>1. CallsOK'  BY <1>4, SendsKeepCalls DEF IInv, TypeOK
  <2> QED  BY <1>3, <1>4, <2>1 DEF Review, SubmitSelected, tokens
<1>5. ASSUME NEW n \in Calls, Commit(n)  PROVE IInv'
  <2>1. screen.request \in Requests /\ sheet[screen.request] \in Sheets
    BY <1>5 DEF Commit, IInv, TypeOK, CallsOK
  <2>2. CallsOK'  BY <1>5, <2>1, SendsKeepCalls DEF IInv, TypeOK
  <2> QED  BY <1>3, <1>5, <2>2 DEF Commit, tokens
<1>6. ASSUME NEW n \in Calls, Reviewed(n) \/ Committed(n) \/ Lose(n)  PROVE IInv'
  <2>1. CallsOK'  BY <1>6, ScreenKeepsCalls DEF IInv, TypeOK
  <2> QED  BY <1>3, <1>6, <2>1 DEF Reviewed, Committed, Lose, tokens
<1>7. CASE ChangeMapping \/ Close \/ GiveUp
  <2>1. CallsOK'  BY <1>7, ScreenKeepsCalls DEF IInv, TypeOK
  <2> QED  BY <1>3, <1>7, <2>1 DEF ChangeMapping, Close, GiveUp, tokens
<1>8. ASSUME NEW n \in Calls, Begin(n)  PROVE IInv'
  <2>1. CallsOK'  BY <1>8, BeginKeepsCalls DEF IInv, TypeOK
  <2> QED  BY <1>3, <1>8, <2>1 DEF Begin, tokens
<1>9. ASSUME NEW q \in Requests, Expire(q)  PROVE IInv'
  BY <1>9 DEF Expire, shelf, history, IInv, TypeOK, CallsOK, RowsOK, WriteIsSaved
<1>10. ASSUME NEW r \in Listed, NEW stock \in Stocks, Elsewhere(r, stock)  PROVE IInv'
  <2>1. CallsOK' /\ WriteIsSaved'
    BY <1>10 DEF Elsewhere, tokens, IInv, TypeOK, CallsOK, WriteIsSaved
  <2>2. listing' \in [Listed -> [stock : Nat, stamp : Nat] \cup {None}]
    <3>1. stock \in Nat  BY ImportAssumption
    <3> QED  BY <1>10, <3>1 DEF Elsewhere, IInv, TypeOK, RowsOK
  <2>3. touched' \in [Requests -> SUBSET Rows]
    BY <1>10, TouchTyped DEF Elsewhere, Rows, IInv, TypeOK
  <2>4. RowsOK'  BY <1>10, <2>2, <2>3 DEF Elsewhere, tokens, IInv, TypeOK, RowsOK
  <2> QED  BY <2>1, <2>4 DEF IInv, TypeOK
<1> QED  BY <1>1, <1>2, <1>4, <1>5, <1>6, <1>7, <1>8, <1>9, <1>10 DEF Next, RowStep

THEOREM InvariantHolds == Spec => []IInv
BY InvariantInit, InvariantStep, PTL DEF Spec

\* What a screen confirms or a call works off has its sheet, and every row
\* keeps its shape (BulkImport's state, bulkUpload's locals and tables).
THEOREM TypeCorrect == Spec => []TypeOK
<1>1. IInv => TypeOK  BY DEF IInv
<1> QED  BY <1>1, InvariantHolds, PTL

\* bulkUpload writes a confirmed row once, however many calls of its request
\* are at work, lost or sent again (auditId, existingAudit).
THEOREM RowWrittenOnce == Spec => []RowOnce
<1>1. IInv => RowOnce  BY DEF IInv, WriteIsSaved, RowOnce
<1> QED  BY <1>1, InvariantHolds, PTL

-----------------------------------------------------------------------------
(* What was shown                                                          *)

Shown == [status : {"NEW", "MATCH", "CONFLICT", "SKIP"},
          old : [stock : Nat, stamp : Nat] \cup {None}]
Token == UNION {[S -> Shown] : S \in SUBSET Rows}

\* A request is previewed once, row by row.
ReadOnce ==
  /\ preview \in [Requests -> Token]
  /\ \A q \in Requests : sheet[q] = None => DOMAIN preview[q] = {}
  /\ \A n \in Calls : calls[n] # None /\ calls[n].kind = "preview" =>
       /\ \A r \in DOMAIN preview[calls[n].request] : r \notin calls[n].todo
       /\ \A m \in Calls : calls[m] # None /\ calls[m].kind = "preview"
                            /\ calls[m].request = calls[n].request => m = n

\* A listing is no older than it was shown, and newer once it was touched.
NotOlder ==
  \A q \in Requests :
    /\ \A r \in touched[q] : r \in DOMAIN preview[q]
    /\ \A r \in Listed : r \in DOMAIN preview[q] /\ preview[q][r].old # None =>
         /\ listing[r] # None
         /\ preview[q][r].old.stamp <= listing[r].stamp
         /\ r \in touched[q] => preview[q][r].old.stamp < listing[r].stamp

SInv == IInv /\ ReadOnce /\ NotOlder

\* What one more row says.
LEMMA OneMoreShown ==
  ASSUME NEW f \in Token, NEW r \in Rows, NEW v \in Shown
  PROVE  /\ With(f, r, v) \in Token /\ DOMAIN With(f, r, v) = DOMAIN f \cup {r}
         /\ With(f, r, v)[r] = v
         /\ \A x \in DOMAIN f : x # r => With(f, r, v)[x] = f[x]
<1>1. PICK S \in SUBSET Rows : f \in [S -> Shown]  BY DEF Token
<1>2. With(f, r, v) \in [S \cup {r} -> Shown]  BY <1>1 DEF With
<1>3. S \cup {r} \in SUBSET Rows  BY <1>1
<1> QED  BY <1>1, <1>2, <1>3 DEF Token, With

LEMMA ShownTyped ==
  ASSUME NEW f \in Token, NEW r \in DOMAIN f
  PROVE  f[r] \in Shown
<1>1. PICK S \in SUBSET Rows : f \in [S -> Shown]  BY DEF Token
<1> QED  BY <1>1

LEMMA NothingShown == <<>> \in Token /\ DOMAIN <<>> = {}
<1>1. <<>> \in [{} -> Shown] /\ DOMAIN <<>> = {}  OBVIOUS
<1>2. {} \in SUBSET Rows  OBVIOUS
<1> QED  BY <1>1, <1>2 DEF Token

\* Calls that do not read for a preview leave it as it is.
LEMMA CallsKeepReads ==
  ASSUME SInv, UNCHANGED preview, calls' \in [Calls -> CallOn \cup {None}],
         \A q \in Requests : sheet'[q] = None => sheet[q] = None,
         \A n \in Calls : calls'[n] # None /\ calls'[n].kind = "preview" =>
           /\ calls[n] # None /\ calls[n].kind = "preview"
           /\ calls'[n].request = calls[n].request
           /\ \A r \in calls'[n].todo : r \in calls[n].todo
  PROVE  ReadOnce'
BY DEF SInv, ReadOnce

\* Listings that grow newer, those of touched rows strictly.
LEMMA ListingsKeepAge ==
  ASSUME SInv, UNCHANGED preview, RowsOK',
         \A q \in Requests : \A r \in touched'[q] : r \in touched[q] \/ r \in DOMAIN preview[q],
         \A r \in Listed : listing[r] # None =>
           /\ listing'[r] # None
           /\ listing'[r].stamp >= listing[r].stamp
           /\ (\E q \in Requests : r \in touched'[q] /\ r \notin touched[q]) =>
                listing'[r].stamp > listing[r].stamp
  PROVE  NotOlder'
<1> USE DEF SInv, NotOlder
<1>1. ASSUME NEW q \in Requests, NEW r \in Listed, r \in DOMAIN preview[q],
             preview[q][r].old # None
      PROVE  /\ listing'[r] # None
             /\ preview[q][r].old.stamp <= listing'[r].stamp
             /\ r \in touched'[q] => preview[q][r].old.stamp < listing'[r].stamp
  <2>1. /\ listing[r] \in [stock : Nat, stamp : Nat] /\ listing'[r] # None
        /\ preview[q][r].old.stamp <= listing[r].stamp
        /\ r \in touched[q] => preview[q][r].old.stamp < listing[r].stamp
    BY <1>1 DEF IInv, TypeOK, RowsOK
  <2>2. listing'[r] \in [stock : Nat, stamp : Nat]  BY <2>1 DEF RowsOK
  <2>3. r \in Rows /\ preview[q] \in Token  BY DEF Rows, ReadOnce
  <2>4. preview[q][r] \in Shown  BY <1>1, <2>3, ShownTyped
  <2>5. preview[q][r].old.stamp \in Nat  BY <1>1, <2>4 DEF Shown
  <2>6. /\ listing'[r].stamp >= listing[r].stamp
        /\ r \in touched'[q] /\ r \notin touched[q] => listing'[r].stamp > listing[r].stamp
    <3> HIDE DEF SInv, NotOlder
    <3>1. listing[r] # None  BY <2>1, AbsentAssumption
    <3>2. listing'[r].stamp >= listing[r].stamp  BY <3>1
    <3>3. ASSUME r \in touched'[q], r \notin touched[q]
          PROVE  listing'[r].stamp > listing[r].stamp
      BY <3>1, <3>3, Zenon
    <3> QED  BY <3>2, <3>3
  <2>7. listing[r].stamp \in Nat /\ listing'[r].stamp \in Nat  BY <2>1, <2>2
  <2> DEFINE shown == preview[q][r].old.stamp
             before == listing[r].stamp
             after == listing'[r].stamp
  <2>8. shown \in Nat /\ before \in Nat /\ after \in Nat  BY <2>5, <2>7
  <2>9. shown <= before /\ after >= before  BY <2>1, <2>6
  <2>10. preview'[q][r].old.stamp = shown /\ listing'[r].stamp = after  OBVIOUS
  <2>11. CASE r \in touched[q]
    <3>1. shown < before  BY <2>1, <2>11
    <3> HIDE DEF shown, before, after
    <3>2. shown <= after /\ shown < after  BY <2>8, <2>9, <3>1
    <3> QED  BY <2>1, <2>10, <3>2 DEF shown, after
  <2>12. CASE r \notin touched[q]
    <3>1. r \in touched'[q] => after > before  BY <2>6, <2>12
    <3> HIDE DEF shown, before, after
    <3>2. shown <= after /\ (r \in touched'[q] => shown < after)  BY <2>8, <2>9, <3>1
    <3> QED  BY <2>1, <2>10, <3>2 DEF shown, after
  <2> QED  BY <2>11, <2>12
<1>2. \A q \in Requests : \A r \in touched'[q] : r \in DOMAIN preview[q]
  OBVIOUS
<1> QED  BY <1>1, <1>2

\* Steps that send, answer, lose or look, and change no listing.
LEMMA QuietStep ==
  ASSUME SInv, IInv', UNCHANGED <<listing, preview, touched>>, ReadOnce'
  PROVE  SInv'
<1>1. RowsOK'  BY DEF IInv, TypeOK
<1>2. \A r \in Listed : listing[r] # None => listing[r].stamp >= listing[r].stamp
  BY DEF SInv, IInv, TypeOK, RowsOK
<1>3. NotOlder'  BY <1>1, <1>2, ListingsKeepAge DEF SInv, NotOlder
<1> QED  BY <1>3 DEF SInv

LEMMA SendsKeepReads ==
  ASSUME SInv, IInv', NEW n \in Calls, NEW q \in Requests, NEW s \in Sheets,
         Review(n, q, s) \/ SubmitSelected(n, q, s) \/ Commit(n)
  PROVE  SInv'
<1> USE DEF SInv
<1>1. calls \in [Calls -> CallOn \cup {None}] /\ calls' \in [Calls -> CallOn \cup {None}]
      /\ sheet \in [Requests -> Sheets \cup {None}]
      /\ \A m \in Calls : calls[m] # None => sheet[calls[m].request] # None
  BY DEF IInv, TypeOK, CallsOK
<1>2. CASE Review(n, q, s)
  <2>1. /\ calls' = [calls EXCEPT ![n] = Call("preview", q)] /\ calls[n] = None
        /\ sheet' = [sheet EXCEPT ![q] = s] /\ sheet[q] = None
        /\ UNCHANGED <<listing, preview, touched>>
    BY <1>2 DEF Review, Send, shelf, tokens, history
  <2>2. Call("preview", q).request = q  BY DEF Call
  <2>3. DOMAIN preview[q] = {}  BY <2>1 DEF ReadOnce
  <2>4. \A m \in Calls : calls[m] # None => calls[m].request # q
    BY <1>1, <2>1
  <2>5. \A m \in Calls : calls'[m] = IF m = n THEN Call("preview", q) ELSE calls[m]
    BY <1>1, <2>1
  <2>6. \A p \in Requests : sheet'[p] = None => sheet[p] = None
    BY <1>1, <2>1, ImportAssumption
  <2>7. ReadOnce'
    BY <2>1, <2>2, <2>3, <2>4, <2>5, <2>6 DEF ReadOnce
  <2> QED  BY <2>1, <2>7, QuietStep
<1>3. CASE SubmitSelected(n, q, s) \/ Commit(n)
  <2>1. PICK p : calls' = [calls EXCEPT ![n] = Call("upload", p)]
    BY <1>3 DEF SubmitSelected, Commit, Send
  <2>2. Call("upload", p).kind = "upload"  BY DEF Call
  <2>3. \A x \in Requests : sheet'[x] = None => sheet[x] = None
    BY <1>1, <1>3, ImportAssumption DEF SubmitSelected, Commit
  <2>4. UNCHANGED <<listing, preview, touched>>
    BY <1>3 DEF SubmitSelected, Commit, shelf, tokens, history
  <2>5. \A m \in Calls : calls'[m] = IF m = n THEN Call("upload", p) ELSE calls[m]
    BY <1>1, <2>1
  <2>6. ReadOnce'  BY <1>1, <2>2, <2>3, <2>4, <2>5, CallsKeepReads
  <2> QED  BY <2>4, <2>6, QuietStep
<1> QED  BY <1>2, <1>3

LEMMA ScreensKeepReads ==
  ASSUME SInv, IInv',
         \/ \E n \in Calls : Reviewed(n) \/ Committed(n) \/ Lose(n) \/ Begin(n)
         \/ ChangeMapping \/ Close \/ GiveUp
         \/ \E q \in Requests : Expire(q)
  PROVE  SInv'
<1> USE DEF SInv
<1>1. calls \in [Calls -> CallOn \cup {None}] /\ calls' \in [Calls -> CallOn \cup {None}]
  BY DEF IInv, TypeOK, CallsOK
<1>2. ASSUME UNCHANGED <<listing, preview, touched, sheet>>,
             \A m \in Calls : \/ calls'[m] = calls[m] \/ calls'[m] = None
                              \/ /\ calls[m] # None /\ calls'[m].kind = calls[m].kind
                                 /\ calls'[m].request = calls[m].request
                                 /\ calls'[m].todo = calls[m].todo
      PROVE  SInv'
  <2>1. ReadOnce'  BY <1>1, <1>2, CallsKeepReads
  <2> QED  BY <1>2, <2>1, QuietStep
<1>3. ASSUME NEW n \in Calls, Reviewed(n) \/ Committed(n) \/ Lose(n)  PROVE SInv'
  <2>1. calls' = [calls EXCEPT ![n] = None] /\ UNCHANGED <<listing, preview, touched, sheet>>
    BY <1>3 DEF Reviewed, Committed, Answer, Lose, shelf, tokens, history
  <2> QED  BY <1>1, <1>2, <2>1
<1>4. ASSUME NEW n \in Calls, Begin(n)  PROVE SInv'
  <2>1. calls[n] \in CallOn /\ calls[n] # None  BY <1>1, <1>4 DEF Begin
  <2>2. calls' = [calls EXCEPT ![n].begun = TRUE, ![n].late = calls[n].request \in expired]
        /\ UNCHANGED <<listing, preview, touched, sheet>>
    BY <1>4 DEF Begin, shelf, tokens, history
  <2>3. /\ calls'[n].kind = calls[n].kind /\ calls'[n].request = calls[n].request
        /\ calls'[n].todo = calls[n].todo
        /\ \A m \in Calls : m # n => calls'[m] = calls[m]
    BY <1>1, <2>1, <2>2 DEF CallOn
  <2> QED  BY <1>2, <2>1, <2>2, <2>3
<1>5. CASE ChangeMapping \/ Close \/ GiveUp \/ \E q \in Requests : Expire(q)
  BY <1>2, <1>5 DEF ChangeMapping, Close, GiveUp, Expire, shelf, tokens, history
<1> QED  BY <1>3, <1>4, <1>5

\* The calls after one has worked off a row.
LEMMA CallsAfterRow ==
  ASSUME IInv, NEW n \in Calls, NEW kind, NEW r, NEW o, Turn(n, kind, r), Answered(n, r, o)
  PROVE  \A m \in Calls :
           \/ calls'[m] = calls[m] /\ m # n
           \/ calls'[m] = None
           \/ /\ m = n /\ calls[m] # None /\ calls'[m].kind = calls[m].kind
              /\ calls'[m].request = calls[m].request
              /\ calls'[m].todo = calls[m].todo \ {r}
<1>1. calls[n] \in CallOn /\ calls[n] # None /\ calls \in [Calls -> CallOn \cup {None}]
  BY DEF IInv, TypeOK, CallsOK, Turn
<1> DEFINE next == [calls[n] EXCEPT !.todo = @ \ {r}, !.result = With(@, r, o)]
<1>2. /\ next.kind = calls[n].kind /\ next.request = calls[n].request
      /\ next.todo = calls[n].todo \ {r}
  BY <1>1 DEF CallOn
<1>3. calls' = [calls EXCEPT ![n] = None] \/ calls' = [calls EXCEPT ![n] = next]
  BY <1>1 DEF Answered
<1> HIDE DEF next
<1> QED  BY <1>1, <1>2, <1>3

\* Which rows a change of a listing makes out of date, everywhere they were shown.
LEMMA TouchedRows ==
  ASSUME IInv, NEW r \in Rows, NEW q \in Requests
  PROVE  \A x : x \in Touch(r)[q] <=> x \in touched[q] \/ (x = r /\ r \in DOMAIN preview[q])
BY DEF Touch, Previews, IInv, TypeOK, RowsOK

LEMMA RowsKeepReads ==
  ASSUME SInv, IInv', NEW n \in Calls, NEW r \in Rows, RowStep(n, r)
  PROVE  SInv'
<1> USE DEF SInv
<1> DEFINE q == calls[n].request
<1>1. /\ calls[n] # None /\ r \in calls[n].todo
      /\ \E kind, o : Turn(n, kind, r) /\ Answered(n, r, o)
  BY DEF RowStep, PreviewRow, SkipRow, CreateProduct, CreateListing, UpdateListing,
         ReplayRow, FailRow, Unsaved, Turn, Save
<1>2. /\ calls[n] \in CallOn /\ q \in Requests /\ sheet[q] # None
      /\ calls' \in [Calls -> CallOn \cup {None}]
      /\ listing \in [Listed -> [stock : Nat, stamp : Nat] \cup {None}]
      /\ touched \in [Requests -> SUBSET Rows]
      /\ RowsOK'
  BY <1>1, AtWork DEF IInv, TypeOK, CallsOK, RowsOK
<1>3. \A m \in Calls :
        \/ calls'[m] = calls[m] /\ m # n
        \/ calls'[m] = None
        \/ /\ m = n /\ calls[m] # None /\ calls'[m].kind = calls[m].kind
           /\ calls'[m].request = calls[m].request
           /\ calls'[m].todo = calls[m].todo \ {r}
  BY <1>1, CallsAfterRow
<1>4. UNCHANGED sheet
  BY DEF RowStep, PreviewRow, SkipRow, CreateProduct, CreateListing, UpdateListing,
         ReplayRow, FailRow, Save
<1>5. ASSUME UNCHANGED preview PROVE ReadOnce'
  BY <1>2, <1>3, <1>4, <1>5, CallsKeepReads
<1> HIDE DEF q
<1>6. ASSUME UNCHANGED <<listing, preview, touched>> PROVE SInv'
  BY <1>5, <1>6, QuietStep
<1>7. ASSUME UNCHANGED preview, touched' = Touch(r),
             \A x \in Listed : listing[x] # None =>
               /\ listing'[x] # None /\ listing'[x].stamp >= listing[x].stamp
               /\ x = r => listing'[x].stamp > listing[x].stamp
      PROVE  SInv'
  <2>1. \A p \in Requests : \A x : x \in touched'[p] <=>
          x \in touched[p] \/ (x = r /\ r \in DOMAIN preview[p])
    BY <1>7, TouchedRows
  <2>2. NotOlder'  BY <1>2, <1>7, <2>1, ListingsKeepAge
  <2> QED  BY <1>5, <1>7, <2>2
<1>8. CASE PreviewRow(n, r)
  <2>1. PICK status \in Status(q, r) :
          preview' = [preview EXCEPT ![q] = With(@, r, [status |-> status,
                       old |-> IF r \in Listed THEN listing[r] ELSE None])]
    BY <1>8 DEF PreviewRow, q
  <2> DEFINE v == [status |-> status, old |-> IF r \in Listed THEN listing[r] ELSE None]
  <2>2. status \in {"NEW", "MATCH", "CONFLICT", "SKIP"}  BY <2>1 DEF Status
  <2>3. v \in Shown /\ v.old = IF r \in Listed THEN listing[r] ELSE None
    BY <1>2, <2>2 DEF Shown
  <2>4. calls[n].kind = "preview" /\ UNCHANGED <<listing, touched>>
    BY <1>8 DEF PreviewRow, Turn, shelf, history
  <2>5. r \notin DOMAIN preview[q] /\ preview[q] \in Token
    BY <1>1, <1>2, <2>4 DEF ReadOnce, q
  <2>6. preview' = [preview EXCEPT ![q] = With(preview[q], r, v)]  BY <1>2, <2>1
  <2> HIDE DEF v
  <2>7. /\ With(preview[q], r, v) \in Token
        /\ DOMAIN With(preview[q], r, v) = DOMAIN preview[q] \cup {r}
        /\ With(preview[q], r, v)[r] = v
        /\ \A x \in DOMAIN preview[q] : x # r => With(preview[q], r, v)[x] = preview[q][x]
    BY <2>3, <2>5, OneMoreShown
  <2>8. /\ preview' \in [Requests -> Token]
        /\ preview'[q] = With(preview[q], r, v)
        /\ \A p \in Requests : p # q => preview'[p] = preview[p]
    BY <1>2, <2>6, <2>7 DEF ReadOnce
  <2>9. ReadOnce'
    <3>1. \A p \in Requests : sheet'[p] = None => DOMAIN preview'[p] = {}
      BY <1>2, <1>4, <2>8 DEF ReadOnce
    <3>2. ASSUME NEW m \in Calls, calls'[m] # None, calls'[m].kind = "preview"
          PROVE  /\ calls[m] # None /\ calls[m].kind = "preview"
                 /\ calls'[m].request = calls[m].request
                 /\ \A x \in calls'[m].todo : x \in calls[m].todo
                 /\ m = n => r \notin calls'[m].todo
                 /\ m # n => calls[m].request # q
      BY <1>1, <1>3, <2>4, <3>2 DEF ReadOnce, q
    <3>3. ASSUME NEW m \in Calls, calls'[m] # None, calls'[m].kind = "preview"
          PROVE  \A x \in DOMAIN preview'[calls'[m].request] : x \notin calls'[m].todo
      <4>1. calls[m].request \in Requests
        BY <3>2, <3>3, AtWork DEF IInv, TypeOK
      <4> QED  BY <2>7, <2>8, <3>2, <3>3, <4>1 DEF ReadOnce, q
    <3>4. ASSUME NEW m \in Calls, calls'[m] # None, calls'[m].kind = "preview",
                 NEW k \in Calls, calls'[k] # None, calls'[k].kind = "preview",
                 calls'[k].request = calls'[m].request
          PROVE  k = m
      BY <3>2, <3>4 DEF ReadOnce
    <3> QED  BY <2>8, <3>1, <3>3, <3>4 DEF ReadOnce
  <2>10. NotOlder'
    <3>1. r \notin touched[q]  BY <1>2, <2>5 DEF NotOlder
    <3>2. ASSUME NEW p \in Requests, NEW x \in touched[p] PROVE x \in DOMAIN preview'[p]
      BY <2>7, <2>8 DEF NotOlder
    <3>3. ASSUME NEW p \in Requests, NEW x \in Listed, x \in DOMAIN preview'[p],
                 preview'[p][x].old # None
          PROVE  /\ listing[x] # None
                 /\ preview'[p][x].old.stamp <= listing[x].stamp
                 /\ x \in touched[p] => preview'[p][x].old.stamp < listing[x].stamp
      <4>1. CASE p = q /\ x = r
        <5>1. preview'[p][x].old = listing[x]  BY <2>3, <2>7, <2>8, <4>1, <3>3
        <5>2. listing[x] \in [stock : Nat, stamp : Nat]  BY <1>2, <3>3, <5>1
        <5> QED  BY <3>1, <3>3, <4>1, <5>1, <5>2
      <4>2. CASE ~(p = q /\ x = r)
        <5>1. x \in DOMAIN preview[p] /\ preview'[p][x] = preview[p][x]
          BY <2>7, <2>8, <3>3, <4>2
        <5> QED  BY <3>3, <5>1 DEF NotOlder
      <4> QED  BY <4>1, <4>2
    <3> QED  BY <2>4, <3>2, <3>3 DEF NotOlder
  <2> QED  BY <2>9, <2>10
<1>9. CASE SkipRow(n, r) \/ ReplayRow(n, r) \/ FailRow(n, r)
  BY <1>6, <1>9 DEF SkipRow, ReplayRow, FailRow, Save, shelf, tokens, history
<1>10. CASE CreateProduct(n, r)
  <2>1. r \notin Listed /\ UNCHANGED <<listing, preview>> /\ touched' = Touch(r)
    BY <1>10, ImportAssumption DEF CreateProduct, Save, Wrote, tokens
  <2>2. \A x \in Listed : listing[x] # None => listing[x].stamp >= listing[x].stamp
    BY <1>2
  <2> QED  BY <1>7, <2>1, <2>2
<1>11. CASE CreateListing(n, r)
  <2>1. UNCHANGED preview /\ r \in Listed  BY <1>11 DEF CreateListing, Save, tokens
  <2>2. CASE listing[r] # None
    BY <1>6, <1>11, <2>1, <2>2 DEF CreateListing, history
  <2>3. CASE listing[r] = None
    <3>1. touched' = Touch(r)  BY <1>11, <2>3 DEF CreateListing, Wrote
    <3>2. \A x \in Listed : listing[x] # None => listing'[x] = listing[x] /\ x # r
      BY <1>2, <1>11, <2>3 DEF CreateListing
    <3>3. \A x \in Listed : listing[x] # None => listing[x].stamp >= listing[x].stamp
      BY <1>2
    <3> QED  BY <1>7, <2>1, <3>1, <3>2, <3>3
  <2> QED  BY <2>2, <2>3
<1>12. CASE UpdateListing(n, r)
  <2>1. UNCHANGED preview /\ r \in Listed /\ touched' = Touch(r)
    BY <1>12 DEF UpdateListing, Save, Wrote, tokens
  <2>2. listing[r] \in [stock : Nat, stamp : Nat]
    BY <1>2, <1>12 DEF UpdateListing, AsShown
  <2>3. /\ listing'[r] # None /\ listing'[r].stamp = listing[r].stamp + 1
        /\ \A x \in Listed : x # r => listing'[x] = listing[x]
    <3>1. listing' = [listing EXCEPT ![r] = [stock |-> sheet[q].stock, stamp |-> listing[r].stamp + 1]]
      BY <1>2, <1>12, <2>1 DEF UpdateListing, q
    <3>2. listing'[r].stamp = listing[r].stamp + 1 /\ listing'[r].stock = sheet[q].stock
      BY <1>2, <2>1, <3>1
    <3>3. listing'[r] \in [stock : Nat, stamp : Nat]
      <4>1. sheet[q].stock \in Nat  BY <1>2, ImportAssumption DEF IInv, TypeOK, CallsOK
      <4> QED  BY <1>2, <2>1, <2>2, <3>1, <4>1
    <3> QED  BY <1>2, <2>1, <3>1, <3>2, <3>3, AbsentAssumption
  <2>4. \A x \in Listed : listing[x] # None => listing[x].stamp \in Nat  BY <1>2
  <2> QED  BY <1>7, <2>1, <2>2, <2>3, <2>4
<1> QED  BY <1>8, <1>9, <1>10, <1>11, <1>12 DEF RowStep

LEMMA ElsewhereKeepsReads ==
  ASSUME SInv, IInv', NEW r \in Listed, NEW stock \in Stocks, Elsewhere(r, stock)
  PROVE  SInv'
<1> USE DEF SInv
<1>1. /\ r \in Rows /\ RowsOK' /\ stock \in Nat
      /\ listing \in [Listed -> [stock : Nat, stamp : Nat] \cup {None}]
      /\ calls' \in [Calls -> CallOn \cup {None}]
  BY ImportAssumption DEF Rows, IInv, TypeOK, CallsOK, RowsOK
<1>2. UNCHANGED <<preview, sheet, calls>> /\ touched' = Touch(r)
  BY DEF Elsewhere, tokens
<1>3. ReadOnce'  BY <1>1, <1>2, CallsKeepReads
<1>4. \A p \in Requests : \A x : x \in touched'[p] <=>
        x \in touched[p] \/ (x = r /\ r \in DOMAIN preview[p])
  BY <1>1, <1>2, TouchedRows
<1>5. ASSUME NEW x \in Listed, listing[x] # None
      PROVE  /\ listing'[x] # None /\ listing'[x].stamp >= listing[x].stamp
             /\ x = r => listing'[x].stamp > listing[x].stamp
  <2>1. listing[x] \in [stock : Nat, stamp : Nat]  BY <1>1, <1>5
  <2>2. CASE x = r
    <3>1. listing'[x] = [stock |-> stock, stamp |-> listing[x].stamp + 1]
      BY <1>1, <1>5, <2>2 DEF Elsewhere
    <3>2. listing'[x] \in [stock : Nat, stamp : Nat]  BY <1>1, <2>1, <3>1
    <3>3. listing'[x].stamp = listing[x].stamp + 1  BY <3>1
    <3>4. listing[x].stamp \in Nat  BY <2>1
    <3>5. listing'[x] # None  BY <3>2, AbsentAssumption
    <3> QED  BY <3>3, <3>4, <3>5
  <2>3. CASE x # r
    <3>1. listing'[x] = listing[x]  BY <1>1, <2>3 DEF Elsewhere
    <3> QED  BY <1>5, <2>1, <2>3, <3>1
  <2> QED  BY <2>2, <2>3
<1>6. NotOlder'  BY <1>1, <1>2, <1>4, <1>5, ListingsKeepAge
<1> QED  BY <1>3, <1>6

LEMMA ReadsInit == Init => SInv
<1> SUFFICES ASSUME Init PROVE SInv  OBVIOUS
<1>1. IInv  BY InvariantInit
<1>2. ReadOnce  BY NothingShown DEF Init, ReadOnce
<1>3. NotOlder  BY NothingShown DEF Init, NotOlder
<1> QED  BY <1>1, <1>2, <1>3 DEF SInv

\* Every step keeps what was shown no newer than what is listed.
LEMMA ReadsStep == SInv /\ [Next]_vars => SInv'
<1> SUFFICES ASSUME SInv, [Next]_vars PROVE SInv'  OBVIOUS
<1>0. IInv'  BY InvariantStep DEF SInv
<1>1. CASE UNCHANGED vars
  <2>1. UNCHANGED <<listing, preview, touched, sheet, calls>>
    BY <1>1 DEF vars, shelf, tokens, history
  <2> QED  BY <1>0, <2>1 DEF SInv, ReadOnce, NotOlder
<1>2. ASSUME NEW n \in Calls, NEW r \in Rows, RowStep(n, r)  PROVE SInv'
  BY <1>0, <1>2, RowsKeepReads
<1>3. ASSUME NEW n \in Calls, NEW q \in Requests, NEW s \in Sheets,
             Review(n, q, s) \/ SubmitSelected(n, q, s)  PROVE SInv'
  BY <1>0, <1>3, SendsKeepReads
<1>4. ASSUME NEW n \in Calls, Commit(n)  PROVE SInv'
  <2>1. screen.request \in Requests /\ sheet[screen.request] \in Sheets
    BY <1>4 DEF Commit, SInv, IInv, TypeOK, CallsOK
  <2> QED  BY <1>0, <1>4, <2>1, SendsKeepReads
<1>5. ASSUME \/ \E n \in Calls : Reviewed(n) \/ Committed(n) \/ Lose(n) \/ Begin(n)
             \/ ChangeMapping \/ Close \/ GiveUp
             \/ \E q \in Requests : Expire(q)
      PROVE  SInv'
  BY <1>0, <1>5, ScreensKeepReads
<1>6. ASSUME NEW r \in Listed, NEW stock \in Stocks, Elsewhere(r, stock)  PROVE SInv'
  BY <1>0, <1>6, ElsewhereKeepsReads
<1> QED  BY <1>1, <1>2, <1>3, <1>4, <1>5, <1>6 DEF Next, RowStep

\* At any time a listing is no older than what any request's preview showed of
\* it, and newer if a sale, an edit or another import changed it since
\* (updateMany's where updatedAt).
THEOREM ShownIsNotNewer == Spec => []SInv
BY ReadsInit, ReadsStep, PTL DEF Spec

\* bulkUpload saves UPDATED only for a row that nobody changed since it was
\* previewed, whichever call of whichever request gets to it.
LEMMA UpdatesAreUntouched ==
  ASSUME SInv, Next
  PROVE  \A q \in Requests, r \in Listed :
           audit'[q][r] # audit[q][r] /\ audit'[q][r] = "UPDATED" => r \notin touched[q]
<1> SUFFICES ASSUME NEW q \in Requests, NEW r \in Listed,
                    audit'[q][r] # audit[q][r], audit'[q][r] = "UPDATED"
             PROVE  r \notin touched[q]
  OBVIOUS
<1>1. audit' # audit  OBVIOUS
<1>2. PICK n \in Calls, x \in Rows :
        SkipRow(n, x) \/ CreateProduct(n, x) \/ CreateListing(n, x) \/ UpdateListing(n, x)
  BY <1>1 DEF Next, Review, SubmitSelected, Commit, Reviewed, Committed, Lose, Begin, PreviewRow,
              ReplayRow, FailRow, ChangeMapping, Close, GiveUp, Expire, Elsewhere
<1>3. \E o \in Outcome : /\ audit' = Saved(calls[n].request, x, o)
                         /\ UpdateListing(n, x) \/ o # "UPDATED"
  BY <1>2 DEF SkipRow, CreateProduct, CreateListing, UpdateListing, Save, Outcome
<1>4. calls[n].request \in Requests /\ audit \in [Requests -> [Rows -> Outcome \cup {None}]]
  BY <1>2, AtWork DEF SkipRow, CreateProduct, CreateListing, UpdateListing, Unsaved, Turn,
                      SInv, IInv, TypeOK, RowsOK
<1>5. q = calls[n].request /\ r = x /\ UpdateListing(n, x)
  BY <1>3, <1>4 DEF Saved, Rows
<1>6. r \in DOMAIN preview[q] /\ preview[q][r].old # None /\ listing[r] = preview[q][r].old
  BY <1>5 DEF UpdateListing, SaysOf, AsShown
<1>7. listing[r] \in [stock : Nat, stamp : Nat]
  BY <1>6 DEF SInv, IInv, TypeOK, RowsOK
<1>8. ~(listing[r].stamp < listing[r].stamp)  BY <1>7
<1> QED  BY <1>6, <1>8 DEF SInv, NotOlder

\* A price and stock the shop confirmed replaces only what it was shown
\* (bulkUpload's update of a row that still is as the token says).
THEOREM NothingUnseenReplacedHolds == Spec => NothingUnseenReplaced
<1>1. SInv /\ [Next]_vars =>
        [\A q \in Requests, r \in Listed :
           audit'[q][r] # audit[q][r] /\ audit'[q][r] = "UPDATED" => r \notin touched[q]]_vars
  BY UpdatesAreUntouched
<1> QED  BY <1>1, ShownIsNotNewer, PTL DEF Spec, NothingUnseenReplaced
=============================================================================
