----------------------------- MODULE MCBackOffice ------------------------------
(***************************************************************************)
(* What the staff works on, for TLC: refunds (OrderPayment), the editorial *)
(* workflow (Publishing), the galleries (MediaLibrary), the figures of     *)
(* visitors (Visitors) and the PDFs (Documents).  They share no variable;  *)
(* every behaviour is one of the part the run begins with, and the others  *)
(* stay as they begin.                                                     *)
(***************************************************************************)
EXTENDS MCOrderPayment, Publishing, MediaLibrary, Visitors, Documents

VARIABLE part

officeVars == <<vars, pubVars, mediaVars, visVars, docVars, part>>

OfficeInit ==
    /\ Init /\ PubInit /\ MediaInit /\ VisInit /\ DocInit
    /\ part \in {"order", "publishing", "media", "visitors", "documents"}
    /\ pdf_mode = "chromedp" \/ part = "documents"

\* Symmetry (MCOrderPayment) permutes two pairs of values: the events, which also
\* name the desks, the curators and the hits, and the refunders, which also name the
\* builders, the files, the crunchers and the presses.
OfficeNext ==
    \/ part = "order" /\ Next /\ UNCHANGED <<pubVars, mediaVars, visVars, docVars, part>>
    \/ part = "publishing" /\ PubNext /\ UNCHANGED <<vars, mediaVars, visVars, docVars, part>>
    \/ part = "media" /\ MediaNext /\ UNCHANGED <<vars, pubVars, visVars, docVars, part>>
    \/ part = "visitors" /\ VisNext /\ UNCHANGED <<vars, pubVars, mediaVars, docVars, part>>
    \/ part = "documents" /\ DocNext /\ UNCHANGED <<vars, pubVars, mediaVars, visVars, part>>

OfficeSpec == OfficeInit /\ [][OfficeNext]_officeVars
===============================================================================
