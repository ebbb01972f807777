------------------------------ MODULE PlanEditor ------------------------------
(***************************************************************************)
(* The plan of one layout version between the screen that edits it         *)
(* (VersionEditor.tsx), with its own checks, and the server that checks    *)
(* it again (geometry.py) and writes it (services.save_version).           *)
(*                                                                         *)
(* The screen keeps a draft, sends it whole with the revision it loaded,   *)
(* stays editable meanwhile and takes over what the server answers.  A     *)
(* request outlives the screen's wait for it: when the connection is lost, *)
(* it may still be on its way.  Requests that check nothing themselves     *)
(* come too, for the API is open to any client.                            *)
(*                                                                         *)
(* A Label stands for the texts of a stall and its real size.  The screen, *)
(* the server and the index of the database each have their own way to     *)
(* tell whether two labels are the same, and nothing is assumed of how     *)
(* they are related: "strasse" with two s and with a sharp s are two       *)
(* labels for the screen and one for the server.  Coordinates are whole    *)
(* numbers and canvas sizes are in range: both sides check that alike.  A  *)
(* version that a date has locked takes no edits: see DateLayouts.         *)
(***************************************************************************)
EXTENDS Integers, Sequences, FiniteSets

CONSTANTS
  Label, NoLabel,  \* NoLabel: what neither side takes, as an empty label or
                   \* one too long for the form
  ServerOnly,      \* the labels only the server refuses: see check_plan_of
  toLowerCase(_), casefold(_), Lower(_),
                   \* a label as the screen, the server and the index compare it
  MAX_STALLS,
  Position, Side,  \* what is typed for x and y, for a width and a height
  CanvasSide,      \* and for a side of the canvas
  StartStalls, \* a version starts with at most this many stalls
  MaxDrawn,    \* and the screen adds none beyond this many
  MaxEdits,    \* a run makes this many edits
  MaxSaved,    \* and stops saving at this revision
  Call         \* numbers from 1: requests under way at the same time

ASSUME EditorAssumption ==
  /\ NoLabel \notin Label /\ ServerOnly \subseteq Label
  /\ Position \subseteq Int /\ Side \subseteq Int
  /\ CanvasSide \subseteq Nat \ {0}
  /\ Call \subseteq Nat \ {0} /\ 1 \in Call

VARIABLES
  plan,   \* the version on the server: canvas, rows by primary key, ...
  saved,  \* what the screen has loaded
  draft,
  busy,   \* the call the screen waits for, or 0
  call,   \* requests under way
  edits,  \* edits and stalls added so far
  row     \* the version's row, read by a load whose stalls are not read yet

editorVars == <<plan, saved, draft, busy, call, edits, row>>

NoCall == [stage |-> "none"]
NoRow == [revision |-> 0]
NoId == 0   \* not a row yet
MinOf(a, b) == IF a < b THEN a ELSE b
MaxOf(a, b) == IF a > b THEN a ELSE b

-----------------------------------------------------------------------------
(* Rectangles *)

right(r) == r.x + r.width
bottom(r) == r.y + r.height

overlaps(a, b) ==
  a.x < right(b) /\ b.x < right(a) /\ a.y < bottom(b) /\ b.y < bottom(a)

fits(r, canvas) ==
  /\ r.x >= 0 /\ r.y >= 0
  /\ r.width >= 1 /\ r.height >= 1
  /\ right(r) <= canvas.width /\ bottom(r) <= canvas.height

clampPosition(r, canvas, x, y) ==
  [r EXCEPT !.x = MinOf(MaxOf(0, x), MaxOf(0, canvas.width - r.width)),
            !.y = MinOf(MaxOf(0, y), MaxOf(0, canvas.height - r.height))]

\* The sweep's order: by x, and as listed where x is the same.
Before(stalls, i, j) ==
  stalls[i].x < stalls[j].x \/ (stalls[i].x = stalls[j].x /\ i < j)

\* The sweep compares i with the stalls after it until one starts at i's
\* right side or beyond.
overlapping_pairs(stalls) ==
  LET Reaches(i, j) == \A k \in DOMAIN stalls :
        Before(stalls, i, k) /\ (k = j \/ Before(stalls, k, j))
          => stalls[k].x < right(stalls[i])
  IN {p \in (DOMAIN stalls) \X (DOMAIN stalls) :
        /\ Before(stalls, p[1], p[2])
        /\ Reaches(p[1], p[2])
        /\ overlaps(stalls[p[1]], stalls[p[2]])}

\* The screen's own rules, pair by pair.
draftProblems(canvas, stalls) ==
  \/ \E s \in DOMAIN stalls : stalls[s].label = NoLabel \/ ~fits(stalls[s], canvas)
  \/ \E i, j \in DOMAIN stalls : i # j /\
       \/ toLowerCase(stalls[i].label) = toLowerCase(stalls[j].label)
       \/ overlaps(stalls[i], stalls[j])

\* The server's.
CasefoldDiffers(stalls) ==
  \A i, j \in DOMAIN stalls :
    casefold(stalls[i].label) = casefold(stalls[j].label) => i = j

\* What the form does not keep out: invisible characters, too large or too
\* precise a real size, too many stalls.
WithinLimits(stalls) ==
  /\ Len(stalls) <= MAX_STALLS
  /\ \A s \in DOMAIN stalls : stalls[s].label \notin ServerOnly

WellDrawn(canvas, stalls) ==
  /\ \A s \in DOMAIN stalls : stalls[s].label # NoLabel /\ fits(stalls[s], canvas)
  /\ overlapping_pairs(stalls) = {}

check_plan_of(canvas, stalls) ==
  WithinLimits(stalls) /\ CasefoldDiffers(stalls) /\ WellDrawn(canvas, stalls)

-----------------------------------------------------------------------------
(* The screen *)

NewStall(x, y, size, label) ==
  [x |-> x, y |-> y, width |-> size, height |-> size, label |-> label, id |-> NoId]

\* A row's primary key is its place among the version's rows.
toDraft(version) == [canvas |-> version.canvas, stalls |-> version.rows]

dirty == draft # toDraft(saved)

\* What is edited during a load is lost; a run does not.
Edits == row = NoRow /\ edits < MaxEdits /\ edits' = edits + 1

update(s) ==
  LET old == draft.stalls[s]
      Becomes(r) == draft' = [draft EXCEPT !.stalls[s] = r] IN
  /\ Edits
  /\ \/ \E field \in {"x", "y"}, c \in Position : Becomes([old EXCEPT ![field] = c])
     \/ \E field \in {"width", "height"}, c \in Side : Becomes([old EXCEPT ![field] = c])
     \/ \E l \in Label \cup {NoLabel} : Becomes([old EXCEPT !.label = l])
     \/ \E d \in {<<-1, 0>>, <<1, 0>>, <<0, -1>>, <<0, 1>>} :
          Becomes(clampPosition(old, draft.canvas, old.x + d[1], old.y + d[2]))
  /\ UNCHANGED <<plan, saved, busy, call, row>>

resize ==
  /\ Edits
  /\ \E side \in {"width", "height"}, c \in CanvasSide :
       draft' = [draft EXCEPT !.canvas[side] = c]
  /\ UNCHANGED <<plan, saved, busy, call, row>>

\* The first free spot, row by row, in steps of the new stall's size.
freeSpot(canvas, stalls, size) ==
  LET At(p) == [x |-> p[1], y |-> p[2], width |-> size, height |-> size]
      Spots == {p \in (0..canvas.width) \X (0..canvas.height) :
                  /\ p[1] % size = 0 /\ p[2] % size = 0
                  /\ fits(At(p), canvas)
                  /\ \A s \in DOMAIN stalls : ~overlaps(stalls[s], At(p))}
  IN {p \in Spots : \A q \in Spots : p[2] < q[2] \/ (p[2] = q[2] /\ p[1] <= q[1])}

addStall ==
  LET canvas == draft.canvas
      \* Math.round of a sixth of the shorter side
      size == MaxOf(1, (MinOf(canvas.width, canvas.height) + 3) \div 6) IN
  /\ Edits
  /\ Len(draft.stalls) < MaxDrawn
  /\ \E p \in freeSpot(canvas, draft.stalls, size), l \in Label :
       /\ \A s \in DOMAIN draft.stalls : toLowerCase(draft.stalls[s].label) # toLowerCase(l)
       /\ draft' = [draft EXCEPT !.stalls =
            Append(@, NewStall(p[1], p[2], size, l))]
  /\ UNCHANGED <<plan, saved, busy, call, row>>

Payload(stage, checked) ==
  [stage |-> stage, revision |-> saved.revision, canvas |-> draft.canvas,
   stalls |-> draft.stalls, checked |-> checked]

\* The first that is not in use.
Unused(c) == \A d \in Call : d <= c => (call[d] = NoCall <=> d = c)

save(c) ==
  /\ dirty /\ ~draftProblems(draft.canvas, draft.stalls) /\ busy = 0
  /\ row = NoRow /\ Unused(c)
  /\ call' = [call EXCEPT ![c] = Payload("sent", TRUE)]
  /\ busy' = c
  /\ UNCHANGED <<plan, saved, draft, edits, row>>

\* The same from a client that checks nothing; a run sends it alone.
SendUnchecked(c) ==
  /\ row = NoRow /\ c = 1 /\ \A d \in Call : call[d] = NoCall
  /\ draftProblems(draft.canvas, draft.stalls)
  /\ call' = [call EXCEPT ![c] = Payload("sent", FALSE)]
  /\ UNCHANGED <<plan, saved, draft, busy, edits, row>>

discard ==
  /\ dirty /\ busy = 0
  /\ draft' = toDraft(saved)
  /\ UNCHANGED <<plan, saved, busy, call, edits, row>>

\* The page is loaded again: the version's row is read, then its stalls.  A
\* run does so when there is something new to see, or on its way.
LoadRow ==
  /\ row = NoRow /\ busy = 0
  /\ saved.revision < plan.revision \/ \E c \in Call : call[c].stage = "sent"
  /\ row' = plan
  /\ UNCHANGED <<plan, saved, draft, busy, call, edits>>

\* Mutant: the stalls are read first.
LoadStalls_First ==
  /\ row # NoRow
  /\ saved' = [plan EXCEPT !.rows = row.rows]
  /\ draft' = toDraft(saved')
  /\ row' = NoRow
  /\ UNCHANGED <<plan, busy, call, edits>>

LoadStalls ==
  /\ row # NoRow
  /\ saved' = [row EXCEPT !.rows = plan.rows]
  /\ draft' = toDraft(saved')
  /\ row' = NoRow
  /\ UNCHANGED <<plan, busy, call, edits>>

\* The screen takes the answer, and drops what was edited meanwhile.  Of an
\* answer nobody waits for nothing is left.
Answered(c) ==
  /\ call[c].stage \in {"saved", "refused"}
  /\ IF busy = c /\ call[c].stage = "saved"
     THEN saved' = call[c].version /\ draft' = toDraft(saved')
     ELSE UNCHANGED <<saved, draft>>
  /\ busy' = IF busy = c THEN 0 ELSE busy
  /\ call' = [call EXCEPT ![c] = NoCall]
  /\ UNCHANGED <<plan, edits, row>>

\* "We couldn't reach Vendi": the request may still arrive, or never.
Unreachable(c) ==
  /\ busy = c
  /\ busy' = 0
  /\ call' = [call EXCEPT ![c] = IF call[c].stage = "sent" THEN call[c] ELSE NoCall]
  /\ UNCHANGED <<plan, saved, draft, edits, row>>

Vanishes(c) ==
  /\ call[c].stage = "sent" /\ busy # c
  /\ call' = [call EXCEPT ![c] = NoCall]
  /\ UNCHANGED <<plan, saved, draft, busy, edits, row>>

-----------------------------------------------------------------------------
(* The server, which holds the version's row while it checks and writes *)

Known(stalls) == {stalls[s].id : s \in DOMAIN stalls} \ {NoId}

\* Every existing stall is listed, once, and no other.
check_stall_ids(stalls) ==
  /\ Known(stalls) = DOMAIN plan.rows
  /\ \A i, j \in DOMAIN stalls : stalls[i].id = stalls[j].id /\ stalls[i].id # NoId => i = j

RevisionFits(r) == r.revision = plan.revision

\* Mutant: nothing is parked.
Parked_None(old, new) == {}

\* The rows that are renamed get a temporary label first, which no other has.
Parked(old, new) == {i \in DOMAIN old : casefold(old[i].label) # casefold(new[i].label)}

\* One UPDATE writes the rows in an order of its own, then new ones are added,
\* and the unique index is checked at every row: the labels that can meet in
\* it and are the same to it.
Clashes(old, new) ==
  LET Indexed(done) == IF done = DOMAIN old THEN DOMAIN new
                       ELSE done \cup (DOMAIN old \ Parked(old, new))
      LabelOf(i, done) == IF i \in DOMAIN old \ done THEN old[i].label ELSE new[i].label
  IN {p \in Label \X Label :
        /\ Lower(p[1]) = Lower(p[2])
        /\ \E done \in SUBSET DOMAIN old : \E i, j \in Indexed(done) :
             i # j /\ p = <<LabelOf(i, done), LabelOf(j, done)>>}

LowerDiffers(rows) ==
  \A i, j \in DOMAIN rows : Lower(rows[i].label) = Lower(rows[j].label) => i = j

New(stalls) == {k \in DOMAIN stalls : stalls[k].id = NoId}

\* The listed stalls in the order of their rows, then the new ones as listed.
Rows(stalls) ==
  LET old == [i \in DOMAIN plan.rows |-> CHOOSE s \in {stalls[k] : k \in DOMAIN stalls} : s.id = i]
      listed == {new \in [1..Cardinality(New(stalls)) -> New(stalls)] :
                   \A j, k \in DOMAIN new : j < k => new[j] < new[k]}
  IN {old \o [k \in DOMAIN new |-> [stalls[new[k]] EXCEPT !.id = Len(old) + k]] : new \in listed}

Refused(r) ==
  \/ ~RevisionFits(r)
  \/ ~check_stall_ids(r.stalls) \/ ~check_plan_of(r.canvas, r.stalls)

\* Why a request is refused.  "expected": the plan was changed meanwhile, or the
\* sender checks nothing.  "limit", "duplicate": for what the screen does not look
\* at, or takes for different.  "surprise": the screen should have found it.
Reason(r) ==
  LET SameOnBoth == \E i, j \in DOMAIN r.stalls :
        /\ i # j /\ toLowerCase(r.stalls[i].label) = toLowerCase(r.stalls[j].label)
        /\ casefold(r.stalls[i].label) = casefold(r.stalls[j].label)
  IN IF ~r.checked \/ ~RevisionFits(r) THEN "expected"
     ELSE IF ~check_stall_ids(r.stalls) \/ ~WellDrawn(r.canvas, r.stalls) \/ SameOnBoth
     THEN "surprise"
     ELSE IF CasefoldDiffers(r.stalls) THEN "limit" ELSE "duplicate"

Refusal(reason) == [stage |-> "refused", reason |-> reason]

Refuse(c) ==
  /\ call[c].stage = "sent" /\ Refused(call[c])
  /\ call' = [call EXCEPT ![c] = Refusal(Reason(call[c]))]
  /\ UNCHANGED <<plan, saved, draft, busy, edits, row>>

\* Where the index may refuse a label, the transaction may be undone and a 500
\* sent: no surprise if only the index takes the two labels for the same.
write_stalls(c) ==
  LET r == call[c] IN
  /\ r.stage = "sent" /\ ~Refused(r)
  /\ plan.revision < MaxSaved
  /\ \E rows \in Rows(r.stalls) :
       \/ \E p \in Clashes(plan.rows, rows) :
            /\ call' = [call EXCEPT ![c] = Refusal(
                 IF casefold(p[1]) = casefold(p[2]) THEN "surprise" ELSE "index")]
            /\ UNCHANGED plan
       \/ /\ LowerDiffers(rows)
          /\ plan' = [revision |-> plan.revision + 1, canvas |-> r.canvas, rows |-> rows]
          /\ call' = [call EXCEPT ![c] = [stage |-> "written", version |-> plan']]
  /\ UNCHANGED <<saved, draft, busy, edits, row>>

\* The answer's stalls are read after the transaction has ended.
ReadSaved(c) ==
  /\ call[c].stage = "written"
  /\ call' = [call EXCEPT ![c] = [stage |-> "saved",
       version |-> [call[c].version EXCEPT !.rows = plan.rows]]]
  /\ UNCHANGED <<plan, saved, draft, busy, edits, row>>

-----------------------------------------------------------------------------
\* A version as create_version may have made it: checked when it was drawn, or
\* a copy, whose stalls were checked with a canvas that need not be its own
\* (DateLayouts has the two reads of a copy).
EditorInit ==
  /\ \E canvas, checked \in [width : CanvasSide, height : CanvasSide], n \in 0..StartStalls :
     \E rows \in [1..n -> [x : Position, y : Position, width : Side, height : Side,
                           label : Label, id : 1..n]] :
       /\ \A i \in 1..n : rows[i].id = i
       /\ check_plan_of(checked, rows) /\ LowerDiffers(rows)
       /\ plan = [canvas |-> canvas, rows |-> rows, revision |-> 1]
  /\ saved = plan
  /\ draft = toDraft(plan)
  /\ busy = 0
  /\ call = [c \in Call |-> NoCall]
  /\ edits = 0
  /\ row = NoRow

EditorNext ==
  \/ \E s \in DOMAIN draft.stalls : update(s)
  \/ resize \/ addStall \/ discard \/ LoadRow \/ LoadStalls
  \/ \E c \in Call : \/ save(c) \/ SendUnchecked(c) \/ Answered(c)
                     \/ Unreachable(c) \/ Vanishes(c)
                     \/ Refuse(c) \/ write_stalls(c) \/ ReadSaved(c)

EditorSpec == EditorInit /\ [][EditorNext]_editorVars

-----------------------------------------------------------------------------
(* Properties *)

\* Whatever is sent, also by a client that checks nothing, no stored stall lies
\* over another and no label is there twice; and once a plan was saved, not only
\* copied, every stall is inside the canvas.  A draft in which the screen sees no
\* problem is refused only for what the screen does not look at or compares
\* otherwise, whichever labels are exchanged while the index looks on.
SavedPlansAreSound ==
  /\ \A i, j \in DOMAIN plan.rows :
       /\ plan.rows[i].label \in Label \ ServerOnly
       /\ plan.revision > 1 => fits(plan.rows[i], plan.canvas)
       /\ i # j => /\ ~overlaps(plan.rows[i], plan.rows[j])
                   /\ casefold(plan.rows[i].label) # casefold(plan.rows[j].label)
  /\ \A c \in Call : call[c].stage = "refused" => call[c].reason # "surprise"

\* Whenever the screen holds the server's revision, it has the server's plan:
\* so a save that the revision lets through was made on what it replaces,
\* although a load reads the version and its stalls one after the other and
\* a request given up for lost may arrive between.
ScreenKnowsItsPlan == saved.revision = plan.revision => saved = plan
=============================================================================
