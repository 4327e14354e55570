----------------------------- MODULE MediaLibrary ------------------------------
(***************************************************************************)
(* Media assets: files in the store, their rows, and the galleries (of     *)
(* products, artists, stories and activities, all alike) that show them.   *)
(*                                                                         *)
(*   upload      a file is stored, through the CMS or by the browser       *)
(*   register    the row of a key, whatever the store has under it         *)
(*   attach      MAX(sort_order) is read, then the row is inserted or      *)
(*               moved; a sort_order that is given is taken as it is       *)
(*   delete      the row is read, the file deleted, then the row, and with *)
(*               it (ON DELETE CASCADE) its place in every gallery         *)
(*                                                                         *)
(* A definition whose comment begins with "Mutant" is no part of the model *)
(* (see OrderPayment).                                                     *)
(***************************************************************************)
EXTENDS Integers, FiniteSets, FiniteSetsExt

CONSTANTS Files,          \* storage keys, random ones; each gets one row at most
          Galleries,
          Curators,       \* CMS requests that can be in flight at once
          MaxOrder,       \* bound on sort_order
          MediaMaxFaults  \* bound on crashes and failed statements

ASSUME MaxOrderAssumption == MaxOrder \in Nat /\ MediaMaxFaults \in Nat

VARIABLES asset,       \* the row of the key
          object,      \* files the store has
          place,       \* sort_order by gallery and file, -1 when it is not shown
          curator,     \* requests in flight
          half,        \* files whose deletion stopped between the store and the row
          bare,        \* keys that were registered and never had a file
          mediaFaults  \* faults so far

mediaVars == <<asset, object, place, curator, half, bare, mediaFaults>>

Resting == [at |-> "idle"]
CuratorStates ==
    {Resting} \cup [at : {"object", "row"}, file : Files]
              \cup [at : {"attach"}, gallery : Galleries, file : Files, last : -1..MaxOrder,
                    passed : BOOLEAN]

MediaTypeOK ==
    /\ asset \in [Files -> {"none", "row", "gone"}]
    /\ object \subseteq Files /\ half \subseteq Files /\ bare \subseteq Files
    /\ place \in [Galleries -> [Files -> -1..MaxOrder]]
    /\ curator \in [Curators -> CuratorStates]
    /\ mediaFaults \in 0..MediaMaxFaults

MediaInit ==
    /\ asset = [f \in Files |-> "none"]
    /\ object = {} /\ half = {} /\ bare = {}
    /\ place = [g \in Galleries |-> [f \in Files |-> -1]]
    /\ curator = [c \in Curators |-> Resting]
    /\ mediaFaults = 0

MediaFault == mediaFaults < MediaMaxFaults /\ mediaFaults' = mediaFaults + 1
Shown(g) == {f \in Files : place[g][f] >= 0}
Registered == {f \in Files : asset[f] = "row"}

\* Attach requests that have read the gallery now act on what has passed.
Passed(g) ==
    [c \in Curators |->
        IF curator[c].at = "attach" /\ curator[c].gallery = g
        THEN [curator[c] EXCEPT !.passed = TRUE] ELSE curator[c]]

-------------------------------------------------------------------------------
(* Uploads *)

\* The store takes the file, from the CMS or by a presigned PUT of the browser.
Upload(f) ==
    /\ f \notin object
    /\ object' = object \cup {f} /\ bare' = bare \ {f}
    /\ UNCHANGED <<asset, place, curator, half, mediaFaults>>

\* The row of the key the client names (UNIQUE); the store is not asked for the file.
RegisterAsset(f) ==
    /\ asset[f] = "none"
    /\ asset' = [asset EXCEPT ![f] = "row"]
    /\ bare' = bare \cup ({f} \ object)
    /\ UNCHANGED <<object, place, curator, half, mediaFaults>>

-------------------------------------------------------------------------------
(* Galleries *)

\* Mutant: the files in the gallery are counted.
CountOrder(c, g, f) ==
    /\ curator[c] = Resting /\ asset[f] \in {"row", "gone"}
    /\ curator' = [curator EXCEPT ![c] =
           [at |-> "attach", gallery |-> g, file |-> f, passed |-> FALSE,
            last |-> Cardinality(Shown(g)) - 1]]
    /\ UNCHANGED <<asset, object, place, half, bare, mediaFaults>>

\* Append: the last order in the gallery is read, -1 of an empty one.
MaxSortOrder(c, g, f) ==
    /\ curator[c] = Resting /\ asset[f] \in {"row", "gone"}
    /\ curator' = [curator EXCEPT ![c] =
           [at |-> "attach", gallery |-> g, file |-> f, passed |-> FALSE,
            last |-> Max({place[g][e] : e \in Files})]]
    /\ UNCHANGED <<asset, object, place, half, bare, mediaFaults>>

\* Mutant: no foreign key.
AttachUnchecked(c) ==
    LET r == curator[c] IN
    /\ r.at = "attach" /\ r.last < MaxOrder
    /\ place' = [place EXCEPT ![r.gallery][r.file] = r.last + 1]
    /\ curator' = [Passed(r.gallery) EXCEPT ![c] = Resting]
    /\ UNCHANGED <<asset, object, half, bare, mediaFaults>>

\* INSERT, or ON CONFLICT the row is moved; the foreign key refuses an asset that
\* is gone.
Attach(c) ==
    LET r == curator[c] IN
    /\ r.at = "attach"
    /\ IF r.file \in Registered
       THEN /\ r.last < MaxOrder
            /\ place' = [place EXCEPT ![r.gallery][r.file] = r.last + 1]
            /\ curator' = [Passed(r.gallery) EXCEPT ![c] = Resting]
       ELSE curator' = [curator EXCEPT ![c] = Resting] /\ UNCHANGED place
    /\ UNCHANGED <<asset, object, half, bare, mediaFaults>>

\* The requests of one statement: attach with an order, detach.
AttachAt(g, f, n) ==
    /\ f \in Registered
    /\ place' = [place EXCEPT ![g][f] = n]
    /\ curator' = Passed(g)
    /\ UNCHANGED <<asset, object, half, bare, mediaFaults>>

Detach(g, f) ==
    /\ f \in Shown(g)
    /\ place' = [place EXCEPT ![g][f] = -1]
    /\ UNCHANGED <<asset, object, curator, half, bare, mediaFaults>>

\* A batch of orders in one transaction; files that are not shown stay so.
Reorder(g, orders) ==
    /\ place' = [place EXCEPT ![g] =
           [f \in Files |-> IF f \in Shown(g) \cap DOMAIN orders THEN orders[f] ELSE place[g][f]]]
    /\ place' # place
    /\ curator' = Passed(g)
    /\ UNCHANGED <<asset, object, half, bare, mediaFaults>>

-------------------------------------------------------------------------------
(* Deletion *)

GetAsset(c, f) ==
    /\ curator[c] = Resting /\ f \in Registered
    /\ curator' = [curator EXCEPT ![c] = [at |-> "object", file |-> f]]
    /\ UNCHANGED <<asset, object, place, half, bare, mediaFaults>>

\* The store deletes the file; an error is logged.
DeleteObject(c) ==
    LET f == curator[c].file IN
    /\ curator[c].at = "object"
    /\ curator' = [curator EXCEPT ![c].at = "row"]
    /\ \/ object' = object \ {f} /\ UNCHANGED mediaFaults
       \/ MediaFault /\ UNCHANGED object
    /\ UNCHANGED <<asset, place, half, bare>>

\* DELETE and its cascade; of a row that is gone already it is a 404.
DeleteAsset(c) ==
    LET f == curator[c].file IN
    /\ curator[c].at = "row"
    /\ curator' = [curator EXCEPT ![c] = Resting]
    /\ asset' = [asset EXCEPT ![f] = "gone"]
    /\ place' = [g \in Galleries |-> [place[g] EXCEPT ![f] = -1]]
    /\ half' = half \ {f}
    /\ UNCHANGED <<object, bare, mediaFaults>>

\* The statement fails or the process stops before it.
DeleteStops(c) ==
    LET f == curator[c].file IN
    /\ curator[c].at = "row"
    /\ curator' = [curator EXCEPT ![c] = Resting]
    /\ half' = half \cup ({f} \cap Registered)
    /\ MediaFault
    /\ UNCHANGED <<asset, object, place, bare>>

-------------------------------------------------------------------------------
CuratorWorks(c) == Attach(c) \/ DeleteObject(c) \/ DeleteAsset(c) \/ DeleteStops(c)

MediaNext ==
    \/ \E f \in Files : Upload(f) \/ RegisterAsset(f)
    \/ \E c \in Curators, f \in Files : GetAsset(c, f)
    \/ \E c \in Curators, f \in Files, g \in Galleries : MaxSortOrder(c, g, f)
    \/ \E g \in Galleries, f \in Files : Detach(g, f) \/ \E n \in 0..MaxOrder : AttachAt(g, f, n)
    \/ \E g \in Galleries, S \in SUBSET Files : \E orders \in [S -> 0..MaxOrder] : Reorder(g, orders)
    \/ \E c \in Curators : CuratorWorks(c)

MediaSpec == MediaInit /\ [][MediaNext]_mediaVars

-------------------------------------------------------------------------------
(* Properties *)

\* Whatever a gallery shows is an asset with a file behind it, unless its deletion is
\* between the store and the row or stopped there, or its key was registered and no
\* file ever came.
ShownFilesExist ==
    \A g \in Galleries : \A f \in Shown(g) :
        /\ f \in Registered
        /\ \/ f \in object \cup half \cup bare
           \/ \E c \in Curators : curator[c].at = "row" /\ curator[c].file = f

\* A file that is appended comes after every other, so that the primary image stays,
\* unless the gallery was reordered or added to between the two statements.
AppendComesLast ==
    [][\A c \in Curators :
         curator[c].at = "attach" /\ curator'[c] = Resting /\ ~curator[c].passed
           /\ place' # place
         => LET g == curator[c].gallery IN
            \A f \in Shown(g) \ {curator[c].file} : place'[g][f] < place'[g][curator[c].file]]_mediaVars
===============================================================================
