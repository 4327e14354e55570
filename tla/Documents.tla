------------------------------- MODULE Documents -------------------------------
(***************************************************************************)
(* The PDF of a certificate and of an itinerary quote.                     *)
(*                                                                         *)
(*   serve    issues a certificate or gives it a new code, sends a quote   *)
(*            or sends it again; after the commit it asks for the PDF      *)
(*   worker   pdf:generate reads the row, renders, stores the file, then   *)
(*            writes the file's key to the row; a job that fails runs      *)
(*            again                                                        *)
(*                                                                         *)
(* A document has versions: the codes of a certificate, the rounds of a    *)
(* quote.  A certificate has a file per code, a quote has one file that    *)
(* each rendering writes over.                                             *)
(*                                                                         *)
(* A definition whose comment begins with "Mutant" is no part of the model *)
(* (see OrderPayment).                                                     *)
(***************************************************************************)
EXTENDS Naturals, FiniteSets

CONSTANTS Certs,        \* certificates
          Quotes,       \* itinerary quotes
          Presses,      \* worker goroutines
          MaxVersions,  \* bound on the versions of a document
          DocMaxFaults  \* bound on crashes, lost enqueues and failed statements

ASSUME DocumentsAssumption == Certs \cap Quotes = {} /\ "none" \notin Certs \cup Quotes
ASSUME MaxVersionsAssumption == MaxVersions \in Nat /\ DocMaxFaults \in Nat

Docs == Certs \cup Quotes
NoKey == [doc |-> "none", nr |-> 0]

VARIABLES version,    \* 0 before there is one
          pdf_key,    \* the file the row names
          file,       \* the version each file in the store shows, 0 without a file
          owed,       \* documents committed whose PDF is not asked for yet
          prints,     \* pdf:generate jobs in the queue
          press,      \* jobs that run
          overtaken,  \* documents that changed while a job had them in hand
          lost,       \* documents a job of which was lost
          unasked,    \* quotes whose last request failed between the commit and the asking
          pdf_mode,   \* PDF_MODE of the deployment, "local" by default
          docFaults   \* faults so far

docVars == <<version, pdf_key, file, owed, prints, press, overtaken, lost, unasked, pdf_mode,
             docFaults>>

Key(d, n) == [doc |-> d, nr |-> IF d \in Certs THEN n ELSE 0]
Keys == {Key(d, n) : d \in Docs, n \in 1..MaxVersions}
Idle == [at |-> "idle", doc |-> "none", read |-> 0, shows |-> 0]

DocTypeOK ==
    /\ version \in [Docs -> 0..MaxVersions]
    /\ pdf_key \in [Docs -> Keys \cup {NoKey}]
    /\ file \in [Keys -> 0..MaxVersions]
    /\ owed \subseteq Docs
    /\ prints \in [Docs -> Nat]
    /\ press \in [Presses -> [at : {"idle", "display", "put", "name"}, doc : Docs \cup {"none"},
                              read : 0..MaxVersions, shows : 0..MaxVersions]]
    /\ overtaken \subseteq Docs /\ lost \subseteq Docs /\ unasked \subseteq Quotes
    /\ pdf_mode \in {"local", "chromedp"}
    /\ docFaults \in 0..DocMaxFaults

DocInit ==
    /\ version = [d \in Docs |-> 0]
    /\ pdf_key = [d \in Docs |-> NoKey]
    /\ file = [k \in Keys |-> 0]
    /\ owed = {}
    /\ prints = [d \in Docs |-> 0]
    /\ press = [w \in Presses |-> Idle]
    /\ overtaken = {} /\ lost = {} /\ unasked = {}
    /\ pdf_mode \in {"local", "chromedp"}
    /\ docFaults = 0

DocFault == docFaults < DocMaxFaults /\ docFaults' = docFaults + 1
InHand(d) == \E w \in Presses : press[w].doc = d

-------------------------------------------------------------------------------
(* Requests.  One request at a time has a document committed and not asked for. *)

\* A version of the document commits with the key the row then has.
Commit(d, key) ==
    /\ d \notin owed /\ version[d] < MaxVersions
    /\ version' = [version EXCEPT ![d] = @ + 1]
    /\ pdf_key' = [pdf_key EXCEPT ![d] = key]
    /\ owed' = owed \cup {d}
    /\ overtaken' = IF InHand(d) THEN overtaken \cup {d} ELSE overtaken
    /\ UNCHANGED <<file, prints, press, lost, unasked, pdf_mode, docFaults>>

Issue(d) == d \in Certs /\ version[d] = 0 /\ Commit(d, NoKey)

\* Mutant: the new code's PDF is not asked for.
RegenerateOnly(d) ==
    /\ d \in Certs /\ version[d] > 0 /\ version[d] < MaxVersions
    /\ version' = [version EXCEPT ![d] = @ + 1]
    /\ overtaken' = IF InHand(d) THEN overtaken \cup {d} ELSE overtaken
    /\ UNCHANGED <<pdf_key, file, owed, prints, press, lost, unasked, pdf_mode, docFaults>>

\* The row goes on naming the file of the old code.
RegenerateCode(d) == d \in Certs /\ version[d] > 0 /\ Commit(d, pdf_key[d])

\* INSERT, or ON CONFLICT the row of the request with its key cleared.
CreateQuote(d) == d \in Quotes /\ Commit(d, NoKey)

\* After the commit; an error of the queue is logged, a crash is silent.
EnqueuePDFGenerate(d) ==
    /\ d \in owed /\ owed' = owed \ {d}
    /\ \/ prints' = [prints EXCEPT ![d] = @ + 1] /\ UNCHANGED <<lost, docFaults>>
       \/ DocFault /\ lost' = lost \cup {d} /\ UNCHANGED prints
    /\ UNCHANGED <<version, pdf_key, file, press, overtaken, unasked, pdf_mode>>

\* SendQuote moves the request from processing to quoted after the quote's commit;
\* when the request has moved meanwhile (another planner, a cancellation) it returns
\* a conflict.  The key is cleared and no PDF is asked for.
SendQuoteConflicts(d) ==
    /\ d \in owed \cap Quotes /\ owed' = owed \ {d}
    /\ unasked' = unasked \cup {d}
    /\ UNCHANGED <<version, pdf_key, file, prints, press, overtaken, lost, pdf_mode, docFaults>>

-------------------------------------------------------------------------------
(* The job *)

\* The row of a certificate is read for its code and read again by the code for
\* what the PDF shows; that of a quote is read once.
GetByID(w, d) ==
    /\ press[w] = Idle /\ prints[d] > 0
    /\ prints' = [prints EXCEPT ![d] = @ - 1]
    /\ press' = [press EXCEPT ![w] =
                   [at |-> IF d \in Certs THEN "display" ELSE "put", doc |-> d, read |-> version[d],
                    shows |-> IF d \in Certs THEN 0 ELSE version[d]]]
    /\ UNCHANGED <<version, pdf_key, file, owed, overtaken, lost, unasked, pdf_mode, docFaults>>

\* Mutant: the second read is by the id.
GetDisplayByID(w) ==
    /\ press[w].at = "display"
    /\ press' = [press EXCEPT ![w].at = "put", ![w].shows = version[press[w].doc]]
    /\ UNCHANGED <<version, pdf_key, file, owed, prints, overtaken, lost, unasked, pdf_mode, docFaults>>

\* A code that has been replaced meanwhile is not found: the job fails and is
\* queued again.
GetByCode(w) ==
    LET d == press[w].doc IN
    /\ press[w].at = "display"
    /\ IF press[w].read = version[d]
       THEN /\ press' = [press EXCEPT ![w].at = "put", ![w].shows = version[d]]
            /\ UNCHANGED prints
       ELSE press' = [press EXCEPT ![w] = Idle] /\ prints' = [prints EXCEPT ![d] = @ + 1]
    /\ UNCHANGED <<version, pdf_key, file, owed, overtaken, lost, unasked, pdf_mode, docFaults>>

\* PDF_MODE=local: there is nothing that renders, and the job ends as done.
RenderUnavailable(w) ==
    /\ pdf_mode = "local"
    /\ press[w].at = "put"
    /\ press' = [press EXCEPT ![w] = Idle]
    /\ UNCHANGED <<version, pdf_key, file, owed, prints, overtaken, lost, unasked, pdf_mode, docFaults>>

\* Rendered and stored.
Put(w) ==
    /\ pdf_mode = "chromedp"
    /\ press[w].at = "put"
    /\ press' = [press EXCEPT ![w].at = "name"]
    /\ file' = [file EXCEPT ![Key(press[w].doc, press[w].read)] = press[w].shows]
    /\ UNCHANGED <<version, pdf_key, owed, prints, overtaken, lost, unasked, pdf_mode, docFaults>>

\* UPDATE by id, whatever the row's version is now.  What was overtaken is in
\* order again when the last job at hand has written what is current.
SetPDFKey(w) ==
    LET d == press[w].doc
        right == /\ press[w].read = version[d] /\ file[Key(d, version[d])] = version[d]
                 /\ \A v \in Presses \ {w} : press[v].doc # d
    IN
    /\ press[w].at = "name"
    /\ pdf_key' = [pdf_key EXCEPT ![d] = Key(d, press[w].read)]
    /\ press' = [press EXCEPT ![w] = Idle]
    /\ overtaken' = IF right THEN overtaken \ {d} ELSE overtaken
    /\ lost' = IF right THEN lost \ {d} ELSE lost
    /\ unasked' = IF right THEN unasked \ {d} ELSE unasked
    /\ UNCHANGED <<version, file, owed, prints, pdf_mode, docFaults>>

\* Mutant: a job that failed is over.
PrintDrops(w) ==
    /\ press[w].at # "idle"
    /\ press' = [press EXCEPT ![w] = Idle]
    /\ DocFault
    /\ UNCHANGED <<version, pdf_key, file, owed, prints, overtaken, lost, unasked, pdf_mode>>

\* A statement, the renderer or the store fails, or the worker stops: the job is
\* queued again, or its retries are used up.
PrintFails(w) ==
    LET d == press[w].doc IN
    /\ press[w].at # "idle"
    /\ press' = [press EXCEPT ![w] = Idle]
    /\ \/ prints' = [prints EXCEPT ![d] = @ + 1] /\ UNCHANGED lost
       \/ lost' = lost \cup {d} /\ UNCHANGED prints
    /\ DocFault
    /\ UNCHANGED <<version, pdf_key, file, owed, overtaken, unasked, pdf_mode>>

-------------------------------------------------------------------------------
PressWorks(w) == GetByCode(w) \/ RenderUnavailable(w) \/ Put(w) \/ SetPDFKey(w)

DocNext ==
    \/ \E d \in Docs : Issue(d) \/ RegenerateCode(d) \/ CreateQuote(d)
    \/ \E d \in Docs : EnqueuePDFGenerate(d) \/ SendQuoteConflicts(d)
    \/ \E w \in Presses, d \in Docs : GetByID(w, d)
    \/ \E w \in Presses : PressWorks(w) \/ PrintFails(w)

DocSpec == DocInit /\ [][DocNext]_docVars

-------------------------------------------------------------------------------
(* Properties *)

\* Where PDFs are rendered (PDF_MODE=chromedp), with nothing under way the row names
\* the PDF of the current version, unless a job was lost, one was overtaken by a change
\* and finished last, or the request for the quote met a conflict after its commit.
PdfIsCurrent ==
    \A d \in Docs :
        /\ pdf_mode = "chromedp"
        /\ version[d] > 0 /\ d \notin owed \cup overtaken \cup lost \cup unasked
        /\ prints[d] = 0 /\ ~InHand(d)
        => /\ pdf_key[d] = Key(d, version[d])
           /\ file[pdf_key[d]] = version[d]

\* The file of a code never shows another code, although the job reads the row
\* twice.
CertificateFilesAreTrue ==
    \A k \in Keys : k.doc \in Certs => file[k] \in {0, k.nr}

\* A key that can be followed leads to a file.
KeyLeadsToFile == \A d \in Docs : pdf_key[d] # NoKey => file[pdf_key[d]] # 0

\* A customer who follows a quote's key sees the current price at every moment, also
\* while the new PDF waits, unless a rendering was in hand when the quote changed.
QuoteShowsCurrentPrice ==
    \A d \in Quotes : pdf_key[d] # NoKey /\ d \notin overtaken => file[pdf_key[d]] = version[d]

\* What a key leads to is right at every moment, not only at rest: it is there, it
\* is of the certificate's code it is named for, or asks the quote's current price.
FilesAreTrue == CertificateFilesAreTrue /\ KeyLeadsToFile /\ QuoteShowsCurrentPrice

\* Where PDFs are rendered, a PDF that was asked for is printed: some time after, the
\* row names the PDF of the version that is current then, whatever fails once, unless
\* retries are used up, or a new version's PDF is not asked for yet or never will be,
\* or renderings of a quote overtook one another.
AskedIsPrinted ==
    \A d \in Docs :
        pdf_mode = "chromedp" /\ prints[d] > 0
        ~> \/ d \in owed \cup lost \cup unasked \cup (overtaken \cap Quotes)
           \/ pdf_key[d] = Key(d, version[d]) /\ file[pdf_key[d]] = version[d]
===============================================================================
