----------------------------- MODULE DateLayouts -----------------------------
(***************************************************************************)
(* Layout versions and one date's offers (backend/layouts), composed with  *)
(* the date's reservations.                                                *)
(*                                                                         *)
(* A version is a numbered plan: a canvas and the places of its stalls.    *)
(* A stall belongs to one version for good, so it is named by the          *)
(* version's number and a slot.  A place is one number and a canvas is the *)
(* last place that fits on it; what check_plan does with real rectangles   *)
(* is in module PlanEditor.                                                *)
(*                                                                         *)
(* Managers work on a screen: they load, edit for any length of time, and  *)
(* save with the revision they loaded.  A write holds the row locks it     *)
(* needs from its first check on and is one step, except a copy, which     *)
(* reads its source with two unlocked statements; a load is two statements *)
(* as well.  The market's and the date's own state can only refuse an      *)
(* operation (see Reservations) and is in module Participation.  What an   *)
(* answer reads once its transaction has ended is read within it here.     *)
(***************************************************************************)
EXTENDS Reservations

CONSTANTS
  Manager,      \* owners and admins of the organization
  MaxVersion,   \* how many versions a run makes
  Slot,         \* stalls a version can have
  Canvas,       \* canvas sizes to choose from
  MaxRevision   \* a run stops saving at this revision

ASSUME LayoutAssumption ==
  /\ MaxVersion \in Nat \ {0}
  /\ MaxRevision \in Nat \ {0}
  /\ Canvas \subseteq Nat \ {0}
  /\ Offer = (1..MaxVersion) \X Slot

VARIABLES
  version,   \* the market's layout versions, by number
  copying,   \* the copy under way under the market's lock
  layout,    \* the date's OccurrenceLayout; revision 0 is no row yet
  offer,     \* the date's StallOffer rows, by stall
  desk       \* what each manager has loaded

layoutVars == <<version, copying, layout, offer, desk>>
vars == <<layoutVars, holdVars>>

Number == 1..MaxVersion
Place == UNION {1..c : c \in Canvas}
Plan == [Slot -> Place \cup {0}]   \* 0: the version has no such stall
Bare == [s \in Slot |-> 0]
NoVersion == [canvas |-> 0, plan |-> Bare, revision |-> 0, locked |-> FALSE]
NoCopy == [source |-> 0, canvas |-> 0]
OfferRow == [enabled : BOOLEAN, price : Price]
Screen == {"none", "version_row", "version", "date_row", "date"}
EmptyDesk == [screen |-> "none", number |-> 0, revision |-> 0,
              canvas |-> 0, plan |-> Bare, offers |-> <<>>]

-----------------------------------------------------------------------------
(* Reads *)

LastNumber == Cardinality({n \in Number : version[n].revision > 0})
StallsOf(n) == {n} \X {s \in Slot : version[n].plan[s] > 0}
HasStalls(n) == n \in 1..LastNumber /\ StallsOf(n) # {}

\* The offers of the version the date has selected; older ones are ignored.
OffersOn(n) == [o \in {p \in DOMAIN offer : p[1] = n} |-> offer[o]]
current_offers == OffersOn(layout.version)

\* Mutant: confirmed stalls are forgotten.
Occupied_HeldOnly ==
  {hold[r].offer : r \in {q \in Reservation : Blocks(hold[q]) /\ hold[q].status = "HELD"}}

Occupied == {hold[r].offer : r \in {q \in Reservation : Blocks(hold[q])}}

\* Every stall fits the canvas and no two share a place.
check_plan(canvas, plan) ==
  /\ \A s \in Slot : plan[s] <= canvas
  /\ \A s, t \in Slot : plan[s] = plan[t] /\ plan[s] > 0 => s = t

\* What an operation that keeps every existing stall may send.
KeepsStalls(old, new) == \A s \in Slot : old[s] > 0 => new[s] > 0

-----------------------------------------------------------------------------
(* Screens *)

OpenVersion(m, n) ==
  /\ n \in 1..LastNumber
  /\ desk' = [desk EXCEPT ![m] = [EmptyDesk EXCEPT
       !.screen = "version_row", !.number = n,
       !.revision = version[n].revision, !.canvas = version[n].canvas]]
  /\ UNCHANGED <<version, copying, layout, offer>>

ReadStalls(m) ==
  /\ desk[m].screen = "version_row"
  /\ desk' = [desk EXCEPT ![m].screen = "version", ![m].plan = version[desk[m].number].plan]
  /\ UNCHANGED <<version, copying, layout, offer>>

OpenDate(m) ==
  /\ desk' = [desk EXCEPT ![m] = [EmptyDesk EXCEPT
       !.screen = "date_row", !.number = layout.version, !.revision = layout.revision]]
  /\ UNCHANGED <<version, copying, layout, offer>>

\* Mutant: the revision is read after the offers it stands for.
ReadOffers_BeforeRevision(m) ==
  /\ desk[m].screen = "date_row"
  /\ desk' = [desk EXCEPT ![m].screen = "date", ![m].revision = layout.revision,
                          ![m].offers = OffersOn(desk[m].number)]
  /\ UNCHANGED <<version, copying, layout, offer>>

ReadOffers(m) ==
  /\ desk[m].screen = "date_row"
  /\ desk' = [desk EXCEPT ![m].screen = "date", ![m].offers = OffersOn(desk[m].number)]
  /\ UNCHANGED <<version, copying, layout, offer>>

-----------------------------------------------------------------------------
(* Layout versions *)

\* The market's lock, which a copy holds between its statements, serializes
\* the numbering.
AddVersion(canvas, plan) ==
  /\ LastNumber < MaxVersion
  /\ version' = [version EXCEPT ![LastNumber + 1] =
       [canvas |-> canvas, plan |-> plan, revision |-> 1, locked |-> FALSE]]

create_version(canvas, plan) ==
  /\ copying = NoCopy
  /\ check_plan(canvas, plan)
  /\ AddVersion(canvas, plan)
  /\ UNCHANGED <<copying, layout, offer, desk>>

\* A copy reads the source's row and then its stalls, and checks nothing.
CopyRow(n) ==
  /\ copying = NoCopy
  /\ n \in 1..LastNumber
  /\ LastNumber < MaxVersion
  /\ copying' = [source |-> n, canvas |-> version[n].canvas]
  /\ UNCHANGED <<version, layout, offer, desk>>

CopyStalls ==
  /\ copying # NoCopy
  /\ AddVersion(copying.canvas, version[copying.source].plan)
  /\ copying' = NoCopy
  /\ UNCHANGED <<layout, offer, desk>>

\* The worker dies, or the request is refused: the transaction is undone.
CopyFails ==
  /\ copying # NoCopy
  /\ copying' = NoCopy
  /\ UNCHANGED <<version, layout, offer, desk>>

\* Mutant: a save does not count as a new revision.
Saved_SameRevision(n, canvas, plan) ==
  [version[n] EXCEPT !.canvas = canvas, !.plan = plan]

Saved(n, canvas, plan) ==
  [version[n] EXCEPT !.canvas = canvas, !.plan = plan, !.revision = @ + 1]

save_version(m, canvas, plan) ==
  LET n == desk[m].number IN
  /\ desk[m].screen = "version"
  /\ ~version[n].locked
  /\ version[n].revision = desk[m].revision
  /\ version[n].revision < MaxRevision
  /\ KeepsStalls(version[n].plan, plan)
  /\ check_plan(canvas, plan)
  /\ version' = [version EXCEPT ![n] = Saved(n, canvas, plan)]
  /\ desk' = [desk EXCEPT ![m].canvas = canvas, ![m].plan = plan,
                          ![m].revision = version'[n].revision]
  /\ UNCHANGED <<copying, layout, offer>>

-----------------------------------------------------------------------------
(* The date's layout.  The date's lock, which holds take too, is held. *)

protect_reserved_offers(n, new) ==
  Occupied # {} =>
    /\ layout.revision > 0 => layout.version = n
    /\ \A o \in DOMAIN new : ~new[o].enabled => o \notin Occupied

\* Mutant: only the first version a date selects is locked.
LockVersion_First(n) ==
  version' = [version EXCEPT ![n].locked = @ \/ layout.revision = 0]

\* From now on a date depends on this plan.
LockVersion(n) ==
  version' = [version EXCEPT ![n].locked = TRUE]

write_offers(new) ==
  offer' = [o \in DOMAIN offer \cup DOMAIN new |->
              IF o \in DOMAIN new THEN new[o] ELSE offer[o]]

Editable(m) ==
  /\ desk[m].screen = "date"
  /\ desk[m].revision = layout.revision
  /\ ~layout.published

save_date_layout(m, n, new) ==
  /\ Editable(m)
  /\ layout.revision < MaxRevision
  /\ HasStalls(n)
  /\ DOMAIN new = StallsOf(n)
  /\ protect_reserved_offers(n, new)
  /\ layout' = [layout EXCEPT !.version = n, !.revision = @ + 1]
  /\ LockVersion(n)
  /\ write_offers(new)
  /\ desk' = [desk EXCEPT ![m].number = n, ![m].revision = layout'.revision, ![m].offers = new]
  /\ UNCHANGED copying

publish_date_layout(m) ==
  /\ desk[m].screen = "date"
  /\ layout.revision > 0
  /\ desk[m].revision = layout.revision
  /\ \E o \in DOMAIN current_offers : current_offers[o].enabled
  /\ layout' = [layout EXCEPT !.published = TRUE]
  /\ UNCHANGED <<version, copying, offer, desk>>

\* Any manager, whatever revision they have seen.
unpublish_date_layout ==
  /\ layout.revision > 0
  /\ layout' = [layout EXCEPT !.published = FALSE]
  /\ UNCHANGED <<version, copying, offer, desk>>

-----------------------------------------------------------------------------
(* Reservations of the offered stalls *)

Offered(o) ==
  /\ layout.published
  /\ o[1] = layout.version
  /\ o \in DOMAIN offer
  /\ offer[o].enabled

\* The reservation keeps the price it is taken at.
TakeStall(b, k, o) ==
  /\ Offered(o)
  /\ AcquireHold(b, k, o, offer[o].price)
  /\ UNCHANGED layoutVars

HoldStep ==
  /\ \/ \E r \in Reservation :
          \/ ReleaseHold(r)
          \/ StartPayment(r, now + HoldFor)
          \/ \E endHold \in BOOLEAN : EndPayment(r, endHold)
          \/ ConfirmHold(r)
     \/ ExpireHolds
     \/ Tick
  /\ UNCHANGED layoutVars

-----------------------------------------------------------------------------
Init ==
  /\ HoldInit
  /\ version = [n \in Number |-> NoVersion]
  /\ copying = NoCopy
  /\ layout = [version |-> 0, revision |-> 0, published |-> FALSE]
  /\ offer = <<>>
  /\ desk = [m \in Manager |-> EmptyDesk]

LayoutStep ==
  /\ \/ \E c \in Canvas, plan \in Plan : create_version(c, plan)
     \/ \E n \in Number : CopyRow(n)
     \/ CopyStalls
     \/ CopyFails
     \/ unpublish_date_layout
     \/ \E m \in Manager :
          \/ \E n \in Number : OpenVersion(m, n)
          \/ ReadStalls(m)
          \/ OpenDate(m)
          \/ ReadOffers(m)
          \/ \E c \in Canvas, plan \in Plan : save_version(m, c, plan)
          \/ \E n \in Number : \E new \in [StallsOf(n) -> OfferRow] : save_date_layout(m, n, new)
          \/ publish_date_layout(m)
  /\ UNCHANGED holdVars

Next ==
  \/ LayoutStep
  \/ \E b \in Business, k \in RequestKey, o \in Offer : TakeStall(b, k, o)
  \/ HoldStep

Spec == Init /\ [][Next]_vars

-----------------------------------------------------------------------------
(* Properties *)

\* A stall that is held, being paid for or booked is always an enabled offer
\* of the layout the date uses: nobody has paid for a stall that a manager
\* moved away, withdrew or replaced in the meantime.
OccupiedStallsAreOffered ==
  \A r \in Reservation :
    StatusShown(hold[r]) \in Occupying =>
      hold[r].offer \in DOMAIN current_offers /\ current_offers[hold[r].offer].enabled

\* Once a date has selected a version, or anybody has reserved one of its
\* stalls, its plan never changes again: what a vendor chose on the map is
\* what they find.
UsedPlansStay ==
  [][\A n \in Number :
       \/ layout.version = n
       \/ \E r \in Reservation : hold[r].status # "NONE" /\ hold[r].offer[1] = n
       => version'[n].plan = version[n].plan /\ version'[n].canvas = version[n].canvas]_vars

\* No edit is lost: whoever changes a version had its current stalls and
\* canvas on the screen, and whoever changes the date's offers had its current
\* offers.
NothingIsOverwrittenUnseen ==
  [][/\ \A n \in 1..LastNumber :
          \/ version'[n].plan = version[n].plan /\ version'[n].canvas = version[n].canvas
          \/ \E m \in Manager :
               desk[m].screen = "version" /\ desk[m].number = n /\
               desk[m].plan = version[n].plan /\ desk[m].canvas = version[n].canvas
     /\ \/ current_offers' = current_offers
        \/ \E m \in Manager :
             desk[m].screen = "date" /\ desk[m].number = layout.version /\
             desk[m].offers = current_offers]_vars

\* What vendors are shown is what a manager saw when publishing it, although
\* the date is loaded with two statements and other managers keep saving.
PublishedAsSeen ==
  [][layout'.published /\ ~layout.published =>
       \E m \in Manager :
         desk[m].screen = "date" /\ desk[m].number = layout.version /\
         desk[m].offers = current_offers']_vars

\* "Stalls are integer rectangles from the top-left.  They must lie inside the
\* canvas and must not overlap" (backend README.md): whatever is stored was
\* checked with the canvas it is stored with.
StoredPlansFit ==
  \A n \in 1..LastNumber : check_plan(version[n].canvas, version[n].plan)
=============================================================================
