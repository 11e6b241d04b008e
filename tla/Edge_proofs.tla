----------------------------- MODULE Edge_proofs -----------------------------
(***************************************************************************)
(* Proofs about the KV copy of an address, for any number of pages, mails, *)
(* contacts, sign-ups of the address and lost pushes.                      *)
(*                                                                         *)
(* The argument: of a page that has been alone since it began, the row it  *)
(* read is still the row, so that the value it pushes is the row it        *)
(* leaves.  A mail the Worker admitted on a settled copy meets that same   *)
(* row at the webhook, because any page that begins excuses it; the        *)
(* channel, which no page pushes, may have changed.                        *)
(***************************************************************************)
EXTENDS Edge, TLAPS

(* A page at work that is alone: nobody else is, the row is the one it is   *)
(* for, and what it will push is what the row is or will be.                *)
Alone(p) ==
    /\ p \in Pages
    /\ \A q \in Pages \ {p} : page[q].at = "idle"
    /\ page[p].id = rows
    /\ page[p].at = "push" => row = page[p].image
    /\ page[p].at = "write" =>
          /\ row # Nothing
          /\ page[p].what # "delete" =>
                /\ page[p].what \in {"contact", "nonce", "approved"}
                /\ \A field \in {"contact", "nonce", "approved"} \ {page[p].what} :
                      page[p].image[field] = row[field]

SoloInv == solo # Nothing => page[solo].at # "idle" /\ Alone(solo)

MailInv ==
    \A m \in Mails :
       mail[m].at = "forwarded" =>
          m \in excused \/ (Quiet /\ settled /\ Admits(kv, mail[m].from))

(* A row has been counted.                                                  *)
Born == row # Nothing => rows > 0

IInv == SoloInv /\ AgreesWhenSettled /\ MailInv /\ ChecksDifferOnlyInARace

-----------------------------------------------------------------------------
(* Type correctness.                                                        *)

PageStates == [at : {"idle", "write", "push"}, id : 0..MaxRows, what : Writes,
               image : Values \cup {Nothing}]
MailStates == [at : MailPlaces, from : Contacts \cup {Nothing}]

(* The part of TypeOK that is about the pages at work.                      *)
PagesOK ==
    /\ page \in [Pages -> PageStates]
    /\ \A p \in Pages : page[p].at # "idle" =>
          page[p].id \in 1..rows /\ (page[p].image = Nothing) = (page[p].what = "delete")

LEMMA IdlePageState == IdlePage \in PageStates
  BY EdgeAssumption DEF IdlePage, PageStates, Writes

(* What the first statement of a page may make of the page's own state.     *)
LEMMA BeginsType ==
  ASSUME TypeOK, NEW p \in Pages, NEW at \in {"write", "push"}, NEW what \in Writes,
         NEW image \in Values \cup {Nothing}, (image = Nothing) = (what = "delete"),
         rows' \in 1..MaxRows, rows <= rows', Begins(p, at, what, image)
  PROVE  PagesOK' /\ solo' \in Pages \cup {Nothing} /\ settled' \in BOOLEAN
         /\ excused' \subseteq Mails
<1> DEFINE g == [at |-> at, id |-> rows', what |-> what, image |-> image]
<1>1. g \in PageStates
  BY EdgeAssumption DEF PageStates
<1>2. page' = [page EXCEPT ![p] = g] /\ page \in [Pages -> PageStates]
  BY DEF Begins, TypeOK, PageStates
<1>3. page' \in [Pages -> PageStates]
  BY <1>1, <1>2
<1>4. \A q \in Pages : page'[q].at # "idle" =>
          page'[q].id \in 1..rows' /\ (page'[q].image = Nothing) = (page'[q].what = "delete")
  <2> SUFFICES ASSUME NEW q \in Pages, page'[q].at # "idle"
               PROVE  page'[q].id \in 1..rows'
                      /\ (page'[q].image = Nothing) = (page'[q].what = "delete")
    OBVIOUS
  <2>1. CASE q = p
    BY <1>2, <2>1
  <2>2. CASE q # p
    BY <1>2, <2>2 DEF TypeOK
  <2>3. QED
    BY <2>1, <2>2
<1>5. QED
  BY <1>3, <1>4 DEF PagesOK, Begins, TypeOK, Forwarded

(* The last statement of a page leaves the others as they are.              *)
LEMMA EndsType ==
  ASSUME TypeOK, NEW p \in Pages, NEW pushed \in BOOLEAN, UNCHANGED rows, Ends(p, pushed)
  PROVE  PagesOK' /\ solo' \in Pages \cup {Nothing} /\ settled' \in BOOLEAN
<1>1. page' = [page EXCEPT ![p] = IdlePage] /\ page \in [Pages -> PageStates]
  BY DEF Ends, TypeOK, PageStates
<1>2. page' \in [Pages -> PageStates]
  BY <1>1, IdlePageState
<1>3. \A q \in Pages : page'[q].at # "idle" => q # p /\ page'[q] = page[q]
  BY <1>1 DEF IdlePage
<1>4. QED
  BY <1>2, <1>3 DEF PagesOK, Ends, TypeOK

LEMMA WriteRowType ==
  ASSUME TypeOK, NEW p \in Pages, WriteRow(p)
  PROVE  PagesOK' /\ row' \in Values \cup {Nothing}
<1> DEFINE g == page[p]
<1>1. g \in PageStates /\ page \in [Pages -> PageStates]
  BY DEF TypeOK, PageStates
<1>2. page' = [page EXCEPT ![p].at = "push"] /\ g.at = "write" /\ rows' = rows
  BY DEF WriteRow
<1>3. [g EXCEPT !.at = "push"] \in PageStates
  BY <1>1 DEF PageStates
<1>4. page' \in [Pages -> PageStates]
  BY <1>1, <1>2, <1>3
<1>5. \A q \in Pages : page'[q].at # "idle" =>
          page'[q].id \in 1..rows' /\ (page'[q].image = Nothing) = (page'[q].what = "delete")
  <2> SUFFICES ASSUME NEW q \in Pages, page'[q].at # "idle"
               PROVE  page'[q].id \in 1..rows'
                      /\ (page'[q].image = Nothing) = (page'[q].what = "delete")
    OBVIOUS
  <2>1. /\ page[q].at # "idle" /\ page'[q].id = page[q].id
        /\ page'[q].image = page[q].image /\ page'[q].what = page[q].what
    BY <1>1, <1>2 DEF PageStates
  <2>2. QED
    BY <1>2, <2>1 DEF TypeOK
<1>6. row' \in Values \cup {Nothing}
  <2>1. CASE row' = row
    BY <2>1 DEF TypeOK
  <2>2. CASE row' = Nothing
    BY <2>2
  <2>3. CASE row # Nothing /\ g.what # "delete" /\ row' = [row EXCEPT ![g.what] = g.image[g.what]]
    <3>1. row \in Values /\ g.image \in Values
      BY <1>1, <1>2, <2>3 DEF TypeOK, PageStates
    <3>2. CASE g.what = "contact"
      BY <2>3, <3>1, <3>2 DEF Values
    <3>3. CASE g.what = "nonce"
      BY <2>3, <3>1, <3>3 DEF Values
    <3>4. CASE g.what = "approved"
      BY <2>3, <3>1, <3>4 DEF Values
    <3>5. CASE g.what = "create"
      BY <2>3, <3>1, <3>5 DEF Values
    <3>6. QED
      BY <1>1, <2>3, <3>2, <3>3, <3>4, <3>5 DEF PageStates, Writes
  <2>4. QED
    BY <2>1, <2>2, <2>3 DEF WriteRow
<1>7. QED
  BY <1>4, <1>5, <1>6 DEF PagesOK

(* Mails only take steps of their own.                                      *)
LEMMA MailType ==
  ASSUME TypeOK, NEW m \in Mails, NEW at \in MailPlaces,
         mail' = [mail EXCEPT ![m].at = at]
  PROVE  mail' \in [Mails -> MailStates]
<1>1. mail \in [Mails -> MailStates]
  BY DEF TypeOK, MailStates
<1>2. [mail[m] EXCEPT !.at = at] \in MailStates
  BY <1>1 DEF MailStates
<1>3. QED
  BY <1>1, <1>2

(* What the webhook makes of a mail.  Of one that the row admits it does    *)
(* anything but refuse it.                                                  *)
LEMMA OutcomesPlaced ==
  ASSUME NEW from
  PROVE  /\ Outcomes(from) \subseteq MailPlaces \ {"forwarded"}
         /\ Admits(row, from) => "refused" \notin Outcomes(from)
<1>1. \A fate \in Outcomes(from) :
          fate \in {"stored", "stopped", "dropped", "replied", "refused"}
  BY DEF Outcomes
<1>2. Admits(row, from) => "refused" \notin Outcomes(from)
  BY DEF Admits, Outcomes
<1>3. QED
  BY <1>1, <1>2 DEF MailPlaces

(* TypeOK, which also says that a page at work is for a row there has been, *)
(* and pushes nothing exactly when it deletes, is an invariant.             *)
THEOREM TypeCorrect == Spec => []TypeOK
<1>1. Init => TypeOK /\ Born
  <2> SUFFICES ASSUME Init PROVE TypeOK /\ Born
    OBVIOUS
  <2>1. page \in [Pages -> PageStates] /\ \A p \in Pages : page[p].at = "idle"
    BY IdlePageState DEF Init, IdlePage
  <2>2. QED
    BY <2>1, EdgeAssumption DEF Init, TypeOK, PageStates, MailPlaces, Born
<1>2. TypeOK /\ Born /\ [Next]_vars => TypeOK' /\ Born'
  <2> SUFFICES ASSUME TypeOK, Born, [Next]_vars PROVE TypeOK' /\ Born'
    OBVIOUS
  <2> DEFINE Rest == /\ kv' \in Values \cup {Nothing} /\ PagesOK' /\ mail' \in [Mails -> MailStates]
                     /\ losses' \in 0..MaxLost
                     /\ solo' \in Pages \cup {Nothing} /\ settled' \in BOOLEAN
                     /\ excused' \subseteq Mails
  <2>0. Rest /\ row' \in Values \cup {Nothing} /\ active' \in BOOLEAN /\ rows' \in 0..MaxRows
        /\ (row' # Nothing => rows' > 0) => TypeOK' /\ Born'
    BY DEF TypeOK, PagesOK, PageStates, MailStates, Born
  <2>a. /\ row \in Values \cup {Nothing} /\ kv \in Values \cup {Nothing}
        /\ active \in BOOLEAN /\ rows \in 0..MaxRows /\ PagesOK /\ mail \in [Mails -> MailStates]
        /\ losses \in 0..MaxLost
        /\ solo \in Pages \cup {Nothing} /\ settled \in BOOLEAN /\ excused \subseteq Mails
    BY DEF TypeOK, PagesOK, PageStates, MailStates
  <2>b. UNCHANGED <<page, rows>> => PagesOK'
    BY <2>a DEF PagesOK
  <2>1. ASSUME NEW p \in Pages, NEW v \in Values, SignUp(p, v) PROVE TypeOK' /\ Born'
    <3>1. rows' \in 1..MaxRows /\ rows <= rows' /\ row' = v /\ active' = TRUE
          /\ Begins(p, "push", "create", v)
      BY <2>1, <2>a, EdgeAssumption DEF SignUp
    <3>2. v # Nothing
      BY EdgeAssumption DEF Values
    <3>3. PagesOK' /\ solo' \in Pages \cup {Nothing} /\ settled' \in BOOLEAN
          /\ excused' \subseteq Mails
      BY <3>1, <3>2, BeginsType DEF Writes
    <3>4. kv' = kv /\ mail' = mail /\ losses' = losses
      BY <3>1 DEF Begins
    <3>5. QED
      BY <2>0, <2>a, <3>1, <3>3, <3>4
  <2>2. ASSUME NEW p \in Pages, NEW what \in {"contact", "nonce", "approved"},
               NEW v \in Values, ReadRow(p, what, v)
        PROVE TypeOK' /\ Born'
    <3>1. row # Nothing /\ UNCHANGED <<row, active, rows>> /\ Begins(p, "write", what, v)
      BY <2>2 DEF ReadRow
    <3>2. rows' \in 1..MaxRows /\ rows <= rows'
      BY <2>a, <3>1, EdgeAssumption DEF Born
    <3>3. v # Nothing
      BY EdgeAssumption DEF Values
    <3>4. PagesOK' /\ solo' \in Pages \cup {Nothing} /\ settled' \in BOOLEAN
          /\ excused' \subseteq Mails
      BY <3>1, <3>2, <3>3, BeginsType DEF Writes
    <3>5. kv' = kv /\ mail' = mail /\ losses' = losses
      BY <3>1 DEF Begins
    <3>6. QED
      BY <2>0, <2>a, <3>1, <3>2, <3>4, <3>5
  <2>3. ASSUME NEW p \in Pages, ReadDoomed(p) PROVE TypeOK' /\ Born'
    <3>1. row # Nothing /\ UNCHANGED <<row, active, rows>> /\ Begins(p, "write", "delete", Nothing)
      BY <2>3 DEF ReadDoomed
    <3>2. rows' \in 1..MaxRows /\ rows <= rows'
      BY <2>a, <3>1, EdgeAssumption DEF Born
    <3>3. PagesOK' /\ solo' \in Pages \cup {Nothing} /\ settled' \in BOOLEAN
          /\ excused' \subseteq Mails
      BY <3>1, <3>2, BeginsType DEF Writes
    <3>4. kv' = kv /\ mail' = mail /\ losses' = losses
      BY <3>1 DEF Begins
    <3>5. QED
      BY <2>0, <2>a, <3>1, <3>2, <3>3, <3>4
  <2>4. ASSUME NEW p \in Pages, WriteRow(p) PROVE TypeOK' /\ Born'
    <3>1. PagesOK' /\ row' \in Values \cup {Nothing}
      BY <2>4, WriteRowType
    <3>2. UNCHANGED <<active, rows, kv, mail, losses, solo, settled, excused>>
          /\ (row' # Nothing => row # Nothing)
      BY <2>4 DEF WriteRow
    <3>3. QED
      BY <2>0, <2>a, <3>1, <3>2 DEF Born
  <2>5. ASSUME NEW p \in Pages, Push(p) PROVE TypeOK' /\ Born'
    <3>1. Ends(p, TRUE) /\ kv' = page[p].image
          /\ UNCHANGED <<row, active, rows, mail, losses, excused>>
      BY <2>5 DEF Push
    <3>2. PagesOK' /\ solo' \in Pages \cup {Nothing} /\ settled' \in BOOLEAN
      BY <3>1, EndsType
    <3>3. kv' \in Values \cup {Nothing}
      BY <2>a, <3>1 DEF PagesOK, PageStates
    <3>4. QED
      BY <2>0, <2>a, <3>1, <3>2, <3>3 DEF Born
  <2>6. ASSUME NEW p \in Pages, LosePush(p) PROVE TypeOK' /\ Born'
    <3>1. Ends(p, FALSE) /\ UNCHANGED <<row, active, rows, kv, mail, excused>>
      BY <2>6 DEF LosePush, storeVars
    <3>9. losses' \in 0..MaxLost
      BY <2>6, <2>a, EdgeAssumption DEF LosePush
    <3>2. PagesOK' /\ solo' \in Pages \cup {Nothing} /\ settled' \in BOOLEAN
      BY <3>1, EndsType
    <3>3. QED
      BY <2>0, <2>a, <3>1, <3>2, <3>9 DEF Born
  <2>7. ASSUME NEW m \in Mails, NEW c \in Contacts, SendIn(m, c) PROVE TypeOK' /\ Born'
    <3>1. [at |-> "sent", from |-> c] \in MailStates
      BY DEF MailStates, MailPlaces
    <3>2. mail' \in [Mails -> MailStates]
      BY <2>7, <2>a, <3>1 DEF SendIn
    <3>3. QED
      BY <2>0, <2>a, <2>b, <2>7, <3>2 DEF SendIn, storeVars, Born
  <2>8. ASSUME NEW m \in Mails, EdgeLookup(m) PROVE TypeOK' /\ Born'
    <3>1. mail' \in [Mails -> MailStates]
      BY <2>8, MailType DEF EdgeLookup, MailPlaces
    <3>2. QED
      BY <2>0, <2>a, <2>b, <2>8, <3>1 DEF EdgeLookup, storeVars, Born
  <2>9. ASSUME NEW m \in Mails, Webhook(m) PROVE TypeOK' /\ Born'
    <3>1. PICK fate \in Outcomes(mail[m].from) :
             mail' = [mail EXCEPT ![m].at = fate] /\ active' = (active /\ fate # "stopped")
      BY <2>9 DEF Webhook
    <3>5. fate \in MailPlaces
      BY OutcomesPlaced
    <3>2. mail' \in [Mails -> MailStates]
      BY <3>1, <3>5, MailType
    <3>3. active' \in BOOLEAN
      BY <3>1
    <3>4. UNCHANGED <<row, rows, kv, page, losses, solo, settled, excused>>
      BY <2>9 DEF Webhook
    <3>6. QED
      BY <2>0, <2>a, <2>b, <3>2, <3>3, <3>4 DEF Born
  <2>10. ASSUME NEW m \in Mails, WebhookFails(m) PROVE TypeOK' /\ Born'
    <3>1. mail' \in [Mails -> MailStates]
      BY <2>10, MailType DEF WebhookFails, MailPlaces
    <3>2. losses' \in 0..MaxLost
      BY <2>10, <2>a, EdgeAssumption DEF WebhookFails
    <3>3. QED
      BY <2>0, <2>a, <2>b, <2>10, <3>1, <3>2 DEF WebhookFails, storeVars, Born
  <2>11. CASE UNCHANGED vars
    BY <2>0, <2>a, <2>b, <2>11 DEF vars, storeVars, Born
  <2>12. CASE SetChannel
    <3>1. active' \in BOOLEAN
      BY <2>12 DEF SetChannel
    <3>2. UNCHANGED <<row, rows, kv, page, mail, losses, solo, settled, excused>>
      BY <2>12 DEF SetChannel
    <3>3. QED
      BY <2>0, <2>a, <2>b, <3>1, <3>2 DEF Born
  <2>13. QED
    BY <2>1, <2>2, <2>3, <2>4, <2>5, <2>6, <2>7, <2>8, <2>9, <2>10, <2>11, <2>12 DEF Next
<1>3. QED
  BY <1>1, <1>2, PTL DEF Spec
-----------------------------------------------------------------------------
(* The copy agrees.                                                         *)

(* A page that begins is alone if nobody was at work, and the copy of the   *)
(* row it takes is exact but for the column it is about to write.           *)
LEMMA BeginsSolo ==
  ASSUME TypeOK, NEW p \in Pages, NEW at \in {"write", "push"}, NEW what, NEW image,
         Begins(p, at, what, image),
         at = "push" => row' = image,
         at = "write" =>
            /\ row' # Nothing
            /\ what # "delete" =>
                  /\ what \in {"contact", "nonce", "approved"}
                  /\ \A field \in {"contact", "nonce", "approved"} \ {what} :
                        image[field] = row'[field]
  PROVE  SoloInv' /\ AgreesWhenSettled' /\ MailInv'
<1> DEFINE g == [at |-> at, id |-> rows', what |-> what, image |-> image]
<1>1. page \in [Pages -> PageStates] /\ page' = [page EXCEPT ![p] = g]
  BY DEF Begins, TypeOK, PageStates
<1>2. page'[p] = g /\ page'[p].at # "idle" /\ \A q \in Pages \ {p} : page'[q] = page[q]
  BY <1>1
<1>3. ~Quiet'
  BY <1>2 DEF Quiet
<1>4. SoloInv'
  <2>1. CASE Quiet
    <3>1. solo' = p
      BY <2>1 DEF Begins
    <3>2. \A q \in Pages \ {p} : page'[q].at = "idle"
      BY <1>2, <2>1 DEF Quiet
    <3>3. Alone(p)'
      BY <1>2, <3>2 DEF Alone
    <3>4. QED
      BY <1>2, <3>1, <3>3 DEF SoloInv
  <2>2. CASE ~Quiet
    BY <2>2 DEF Begins, SoloInv
  <2>3. QED
    BY <2>1, <2>2
<1>5. AgreesWhenSettled'
  BY <1>3 DEF AgreesWhenSettled
<1>6. MailInv'
  BY DEF Begins, MailInv, Forwarded
<1>7. QED
  BY <1>4, <1>5, <1>6

(* A page that ends leaves no page alone but, perhaps, another.             *)
LEMMA EndsSolo ==
  ASSUME TypeOK, SoloInv, NEW p \in Pages, NEW pushed \in BOOLEAN, page[p].at # "idle",
         Ends(p, pushed), UNCHANGED <<row, rows>>
  PROVE  SoloInv' /\ (settled' => solo = p /\ pushed /\ Alone(p))
<1>1. SoloInv'
  <2> SUFFICES ASSUME solo' # Nothing PROVE FALSE
    BY DEF SoloInv
  <2>1. solo' = solo /\ solo # p /\ solo # Nothing
    BY DEF Ends
  <2>2. page[p].at = "idle"
    BY <2>1 DEF SoloInv, Alone
  <2>3. QED
    BY <2>2
<1>2. ASSUME settled' PROVE solo = p /\ pushed /\ Alone(p)
  <2>1. solo = p /\ pushed
    BY <1>2 DEF Ends
  <2>2. solo # Nothing
    BY <2>1, EdgeAssumption
  <2>3. QED
    BY <2>1, <2>2 DEF SoloInv
<1>3. QED
  BY <1>1, <1>2

(* While a page is at work nothing is claimed of a mail that is not excused *)
(* but that there is none in transit.                                       *)
LEMMA NotQuiet ==
  ASSUME MailInv, NEW p \in Pages, page[p].at # "idle"
  PROVE  Forwarded \subseteq excused
  BY DEF MailInv, Forwarded, Quiet

(* The UPDATE of a page that is alone makes the row what it will push.      *)
LEMMA WriteRowSolo ==
  ASSUME TypeOK, SoloInv, NEW p \in Pages, WriteRow(p)
  PROVE  SoloInv'
<1> DEFINE g == page[p]
<1>1. page \in [Pages -> PageStates] /\ g.at = "write"
  BY DEF WriteRow, TypeOK, PageStates
<1>2. page' = [page EXCEPT ![p].at = "push"] /\ UNCHANGED <<rows, solo>>
  BY DEF WriteRow
<1> SUFFICES ASSUME solo # Nothing PROVE SoloInv'
  BY <1>2 DEF SoloInv
<1>3. solo # Nothing /\ page[solo].at # "idle" /\ Alone(solo)
  BY <1>2 DEF SoloInv
<1>4. solo = p
  BY <1>1, <1>3 DEF Alone
<1>5. /\ page'[p].at = "push" /\ page'[p].id = rows' /\ page'[p].image = g.image
      /\ page'[p].what = g.what /\ \A q \in Pages \ {p} : page'[q].at = "idle"
  BY <1>1, <1>2, <1>3, <1>4 DEF Alone, PageStates
<1>6. row' = g.image
  <2>1. row # Nothing /\ g.id = rows
    BY <1>1, <1>3, <1>4 DEF Alone
  <2>2. CASE g.what = "delete"
    <3>1. row' = Nothing
      BY <2>1, <2>2 DEF WriteRow
    <3>2. g.image = Nothing
      BY <1>1, <2>2 DEF TypeOK
    <3>3. QED
      BY <3>1, <3>2
  <2>3. CASE g.what # "delete"
    <3>1. row' = [row EXCEPT ![g.what] = g.image[g.what]]
      BY <2>1, <2>3 DEF WriteRow
    <3>2. row \in Values /\ g.image \in Values
      BY <1>1, <2>1, <2>3 DEF TypeOK
    <3>3. /\ g.what \in {"contact", "nonce", "approved"}
          /\ \A field \in {"contact", "nonce", "approved"} \ {g.what} :
                g.image[field] = row[field]
      BY <1>1, <1>3, <1>4, <2>3 DEF Alone
    <3>4. CASE g.what = "contact"
      BY <3>1, <3>2, <3>3, <3>4 DEF Values
    <3>5. CASE g.what = "nonce"
      BY <3>1, <3>2, <3>3, <3>5 DEF Values
    <3>6. CASE g.what = "approved"
      BY <3>1, <3>2, <3>3, <3>6 DEF Values
    <3>7. QED
      BY <3>3, <3>4, <3>5, <3>6
  <2>4. QED
    BY <2>2, <2>3
<1>7. Alone(p)'
  BY <1>5, <1>6 DEF Alone
<1>8. solo' = p /\ page'[p].at # "idle"
  BY <1>2, <1>4, <1>5
<1>9. QED
  BY <1>7, <1>8 DEF SoloInv

(* Mails do not move pages or rows.                                         *)
LEMMA Untouched ==
  ASSUME SoloInv, AgreesWhenSettled, UNCHANGED <<row, rows, kv, page, solo, settled>>
  PROVE  SoloInv' /\ AgreesWhenSettled' /\ (Quiet' = Quiet)
  BY DEF SoloInv, Alone, AgreesWhenSettled, Quiet

(* What is claimed of mails in transit survives a step of another mail.     *)
LEMMA OtherMails ==
  ASSUME TypeOK, MailInv, ChecksDifferOnlyInARace, NEW m \in Mails,
         NEW at, at # "forwarded", at = "refused" => m \in excused,
         mail' = [mail EXCEPT ![m].at = at],
         UNCHANGED <<row, rows, kv, page, settled, excused>>
  PROVE  MailInv' /\ ChecksDifferOnlyInARace'
<1>1. mail \in [Mails -> MailStates]
  BY DEF TypeOK, MailStates
<1>2. mail'[m].at = at /\ \A n \in Mails \ {m} : mail'[n] = mail[n]
  BY <1>1 DEF MailStates
<1>3. Quiet' = Quiet
  BY DEF Quiet
<1>4. MailInv'
  BY <1>2, <1>3 DEF MailInv, Admits
<1>5. ChecksDifferOnlyInARace'
  BY <1>2 DEF ChecksDifferOnlyInARace
<1>6. QED
  BY <1>4, <1>5

(* The parts of the invariant hold together.                                *)
THEOREM Inductive == Spec => []IInv
<1>1. Init => IInv
  BY EdgeAssumption DEF Init, IInv, SoloInv, AgreesWhenSettled, MailInv, ChecksDifferOnlyInARace
<1>2. TypeOK /\ IInv /\ [Next]_vars => IInv'
  <2> SUFFICES ASSUME TypeOK, IInv, [Next]_vars PROVE IInv'
    OBVIOUS
  <2>a. SoloInv /\ AgreesWhenSettled /\ MailInv /\ ChecksDifferOnlyInARace
    BY DEF IInv
  <2>b. UNCHANGED mail /\ excused \subseteq excused' => ChecksDifferOnlyInARace'
    BY <2>a DEF ChecksDifferOnlyInARace
  <2>1. ASSUME NEW p \in Pages, NEW v \in Values, SignUp(p, v) PROVE IInv'
    <3>1. Begins(p, "push", "create", v) /\ row' = v
      BY <2>1 DEF SignUp
    <3>2. SoloInv' /\ AgreesWhenSettled' /\ MailInv'
      BY <3>1, BeginsSolo
    <3>3. QED
      BY <2>b, <3>1, <3>2 DEF IInv, Begins
  <2>2. ASSUME NEW p \in Pages, NEW what \in {"contact", "nonce", "approved"},
               NEW v \in Values, ReadRow(p, what, v)
        PROVE IInv'
    <3>1. /\ Begins(p, "write", what, v) /\ row' = row /\ row # Nothing
          /\ \A field \in {"contact", "nonce", "approved"} \ {what} : v[field] = row[field]
      BY <2>2 DEF ReadRow
    <3>2. SoloInv' /\ AgreesWhenSettled' /\ MailInv'
      BY <3>1, BeginsSolo
    <3>3. QED
      BY <2>b, <3>1, <3>2 DEF IInv, Begins
  <2>3. ASSUME NEW p \in Pages, ReadDoomed(p) PROVE IInv'
    <3>1. Begins(p, "write", "delete", Nothing) /\ row' = row /\ row # Nothing
      BY <2>3 DEF ReadDoomed
    <3>2. SoloInv' /\ AgreesWhenSettled' /\ MailInv'
      BY <3>1, BeginsSolo
    <3>3. QED
      BY <2>b, <3>1, <3>2 DEF IInv, Begins
  <2>4. ASSUME NEW p \in Pages, WriteRow(p) PROVE IInv'
    <3>1. SoloInv'
      BY <2>4, <2>a, WriteRowSolo
    <3>2. page \in [Pages -> PageStates] /\ page' = [page EXCEPT ![p].at = "push"]
          /\ page[p].at = "write" /\ UNCHANGED <<mail, excused>>
      BY <2>4 DEF WriteRow, TypeOK, PageStates
    <3>3. page'[p].at = "push"
      BY <3>2 DEF PageStates
    <3>4. AgreesWhenSettled'
      BY <3>3 DEF AgreesWhenSettled, Quiet
    <3>5. Forwarded \subseteq excused
      BY <2>a, <3>2, NotQuiet
    <3>6. MailInv'
      BY <3>2, <3>5 DEF MailInv, Forwarded
    <3>7. QED
      BY <2>b, <3>1, <3>2, <3>4, <3>6 DEF IInv
  <2>5. ASSUME NEW p \in Pages, Push(p) PROVE IInv'
    <3>1. /\ page[p].at = "push" /\ kv' = page[p].image /\ Ends(p, TRUE)
          /\ UNCHANGED <<row, rows, mail, excused>>
      BY <2>5 DEF Push
    <3>2. SoloInv' /\ (settled' => Alone(p))
      BY <2>a, <3>1, EndsSolo
    <3>3. AgreesWhenSettled'
      BY <3>1, <3>2 DEF AgreesWhenSettled, Alone
    <3>4. Forwarded \subseteq excused
      BY <2>a, <3>1, NotQuiet
    <3>5. MailInv'
      BY <3>1, <3>4 DEF MailInv, Forwarded
    <3>6. QED
      BY <2>b, <3>1, <3>2, <3>3, <3>5 DEF IInv
  <2>6. ASSUME NEW p \in Pages, LosePush(p) PROVE IInv'
    <3>1. /\ page[p].at # "idle" /\ Ends(p, FALSE) /\ UNCHANGED <<row, rows, kv, mail, excused>>
      BY <2>6 DEF LosePush, storeVars
    <3>2. SoloInv' /\ ~settled'
      BY <2>a, <3>1, EndsSolo
    <3>3. AgreesWhenSettled'
      BY <3>2 DEF AgreesWhenSettled
    <3>4. Forwarded \subseteq excused
      BY <2>a, <3>1, NotQuiet
    <3>5. MailInv'
      BY <3>1, <3>4 DEF MailInv, Forwarded
    <3>6. QED
      BY <2>b, <3>1, <3>2, <3>3, <3>5 DEF IInv
  <2>7. ASSUME NEW m \in Mails, NEW c \in Contacts, SendIn(m, c) PROVE IInv'
    <3>1. SoloInv' /\ AgreesWhenSettled' /\ Quiet' = Quiet
      BY <2>7, <2>a, Untouched DEF SendIn, storeVars
    <3>2. mail'[m].at = "sent" /\ \A n \in Mails \ {m} : mail'[n] = mail[n]
      BY <2>7 DEF SendIn, TypeOK
    <3>3. MailInv'
      BY <2>7, <2>a, <3>1, <3>2 DEF SendIn, storeVars, MailInv, Admits
    <3>4. ChecksDifferOnlyInARace'
      BY <2>7, <2>a, <3>2 DEF SendIn, ChecksDifferOnlyInARace
    <3>5. QED
      BY <3>1, <3>3, <3>4 DEF IInv
  <2>8. ASSUME NEW m \in Mails, EdgeLookup(m) PROVE IInv'
    <3>1. SoloInv' /\ AgreesWhenSettled' /\ Quiet' = Quiet
      BY <2>8, <2>a, Untouched DEF EdgeLookup, storeVars
    <3>2. mail \in [Mails -> MailStates]
      BY DEF TypeOK, MailStates
    <3>3. /\ mail'[m].from = mail[m].from
          /\ mail'[m].at = IF Admits(kv, mail[m].from) THEN "forwarded" ELSE "bounced"
          /\ \A n \in Mails \ {m} : mail'[n] = mail[n]
      BY <2>8, <3>2 DEF EdgeLookup, MailStates
    <3>4. /\ UNCHANGED <<row, kv, settled>> /\ excused \subseteq excused'
          /\ m \in excused' \/ (settled /\ Quiet)
      BY <2>8 DEF EdgeLookup, storeVars
    <3>5. MailInv'
      BY <2>a, <3>1, <3>3, <3>4 DEF MailInv, Admits
    <3>6. ChecksDifferOnlyInARace'
      BY <2>a, <3>3, <3>4 DEF ChecksDifferOnlyInARace
    <3>7. QED
      BY <3>1, <3>5, <3>6 DEF IInv
  <2>9. ASSUME NEW m \in Mails, Webhook(m) PROVE IInv'
    <3>1. SoloInv' /\ AgreesWhenSettled'
      BY <2>9, <2>a, Untouched DEF Webhook
    <3>2. mail[m].at = "forwarded" /\ UNCHANGED <<row, rows, kv, page, settled, excused>>
      BY <2>9 DEF Webhook
    <3>3. PICK fate \in Outcomes(mail[m].from) : mail' = [mail EXCEPT ![m].at = fate]
      BY <2>9 DEF Webhook
    <3>4. fate # "forwarded"
      BY OutcomesPlaced
    <3>5. fate = "refused" => m \in excused
      <4>1. m \in excused \/ (Quiet /\ settled /\ Admits(kv, mail[m].from))
        BY <2>a, <3>2 DEF MailInv
      <4>2. Quiet /\ settled => kv = row
        BY <2>a DEF AgreesWhenSettled
      <4>3. QED
        BY <3>3, <4>1, <4>2, OutcomesPlaced
    <3>6. MailInv' /\ ChecksDifferOnlyInARace'
      BY <2>a, <3>2, <3>3, <3>4, <3>5, OtherMails
    <3>7. QED
      BY <3>1, <3>6 DEF IInv
  <2>10. ASSUME NEW m \in Mails, WebhookFails(m) PROVE IInv'
    <3>1. SoloInv' /\ AgreesWhenSettled'
      BY <2>10, <2>a, Untouched DEF WebhookFails, storeVars
    <3>2. PICK fate \in {"lost", "bounced"} : mail' = [mail EXCEPT ![m].at = fate]
      BY <2>10 DEF WebhookFails
    <3>3. UNCHANGED <<row, rows, kv, page, settled, excused>>
      BY <2>10 DEF WebhookFails, storeVars
    <3>4. MailInv' /\ ChecksDifferOnlyInARace'
      BY <2>a, <3>2, <3>3, OtherMails
    <3>5. QED
      BY <3>1, <3>4 DEF IInv
  <2>11. CASE UNCHANGED vars
    <3>1. UNCHANGED <<row, rows, kv, page, solo, settled, mail, excused>>
      BY <2>11 DEF vars, storeVars
    <3>2. SoloInv' /\ AgreesWhenSettled' /\ Quiet' = Quiet
      BY <2>a, <3>1, Untouched
    <3>3. MailInv' /\ ChecksDifferOnlyInARace'
      BY <2>a, <3>1, <3>2 DEF MailInv, Admits, ChecksDifferOnlyInARace
    <3>4. QED
      BY <3>2, <3>3 DEF IInv
  <2>12. CASE SetChannel
    <3>1. UNCHANGED <<row, rows, kv, page, solo, settled, mail, excused>>
      BY <2>12 DEF SetChannel
    <3>2. SoloInv' /\ AgreesWhenSettled' /\ Quiet' = Quiet
      BY <2>a, <3>1, Untouched
    <3>3. MailInv' /\ ChecksDifferOnlyInARace'
      BY <2>a, <3>1, <3>2 DEF MailInv, Admits, ChecksDifferOnlyInARace
    <3>4. QED
      BY <3>2, <3>3 DEF IInv
  <2>13. QED
    BY <2>1, <2>2, <2>3, <2>4, <2>5, <2>6, <2>7, <2>8, <2>9, <2>10, <2>11, <2>12 DEF Next
<1>3. QED
  BY <1>1, <1>2, TypeCorrect, PTL DEF Spec

(* AgreesWhenSettled is an invariant: whatever pages crossed and pushes     *)
(* were lost before, a page that runs alone leaves KV a copy of the row.    *)
THEOREM CopyAgrees == Spec => []AgreesWhenSettled
<1>1. IInv => AgreesWhenSettled
  BY DEF IInv
<1>2. QED
  BY <1>1, Inductive, PTL

(* ChecksDifferOnlyInARace is an invariant: the checks that Worker and      *)
(* webhook both make differ about a mail only where pages were at work or   *)
(* had crossed.  What the webhook checks alone is not part of it.           *)
THEOREM DifferOnlyInARace == Spec => []ChecksDifferOnlyInARace
<1>1. IInv => ChecksDifferOnlyInARace
  BY DEF IInv
<1>2. QED
  BY <1>1, Inductive, PTL
=============================================================================
