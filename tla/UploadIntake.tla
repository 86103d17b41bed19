----------------------------- MODULE UploadIntake -----------------------------
(* The upload of one file to a case: the headers, the bounded reading of the *)
(* body, the kind of file that the bytes show, and then what the kind asks   *)
(* for: a contract is opened with PDF.js, page by page under one deadline,   *)
(* its text is normalized and located, and one without text is opened again  *)
(* for optical recognition; an image is decoded, drawn anew and checked; a   *)
(* video is handed to its job.                                               *)
EXTENDS Naturals, Sequences, FiniteSets, SequencesExt

CONSTANTS
  Requests,      \* the uploads that may be asked for
  MaxBytes,      \* kind of file -> the bytes it may have
  MaxPages, MaxText, MaxPixels, MaxEdge,
  LocatorLength, \* what one segment's locator adds to the stored text
  None

Kinds == {"listing_image", "contract_pdf", "viewing_video"}
Mimes == {"image/jpeg", "image/png", "application/pdf", "video/mp4"}
Suspects == {"script", "attachment", "form", "link"}
Blank == "_"       \* a character of white space

\* A request: what its headers say, whether optical recognition is agreed
\* to, the pieces of its body (a piece may be no bytes at all), whether the
\* stream breaks off, the type that the first bytes show, and the content.
\* A contract: what PDF.js says when it opens it, what is active in the
\* document and in each page, each page's pieces of text, and whether the
\* text holds a password or the like.  An image: its pixels and pages, and
\* what the drawn copy is like.
IntakeAssumption ==
  /\ \A r \in Requests :
       /\ r.kind \in Kinds /\ r.mime \in Mimes /\ r.magic \in Mimes \cup {None}
       /\ \A i \in DOMAIN r.chunks : r.chunks[i] \in [size : Nat, bytes : BOOLEAN]
  /\ MaxPages \in Nat \ {0}

VARIABLES
  intake,    \* [at, request, taken, next, scanning, page, pages, failure]
  session,   \* the PDF.js session: [open, document, page], all Booleans
  stuck,     \* what a failed clean-up has left behind (history)
  receipt    \* [status, code, kept], or None

intakeVars == <<intake, session, stuck, receipt>>

-----------------------------------------------------------------------------
(* Text.  A character stands for a code point.                             *)
Words(item) ==   \* white space collapsed to one blank and trimmed
  LET keep(i) ==
        \/ item[i] # Blank
        \/ /\ \E j \in 1 .. i - 1 : item[j] # Blank
           /\ \E j \in i + 1 .. Len(item) : item[j] # Blank
           /\ item[i + 1] # Blank IN
  [n \in 1 .. Cardinality({i \in DOMAIN item : keep(i)}) |->
     item[CHOOSE i \in DOMAIN item :
            keep(i) /\ Cardinality({j \in 1 .. i : keep(j)}) = n]]

Items(raw) == SelectSeq([i \in DOMAIN raw |-> Words(raw[i])], LAMBDA t : t # << >>)

Append2(text, item) == IF text = << >> THEN item ELSE text \o <<Blank>> \o item

\* FAULT: the blank between two pieces is not counted.
PageWithoutGaps(raw) ==
  FoldLeft(LAMBDA p, item :
    LET text == Append2(p.text, item)
        start == FoldSeq(LAMBDA s, n : Len(s.text) + n, 0, p.segments) IN
    [text |-> text,
     segments |-> Append(p.segments, [text |-> item, start |-> start, end |-> start + Len(item)])],
    [text |-> << >>, segments |-> << >>], Items(raw))

BuildPage(raw) ==
  FoldLeft(LAMBDA p, item :
    LET text == Append2(p.text, item) IN
    [text |-> text,
     segments |-> Append(p.segments,
       [text |-> item, start |-> Len(text) - Len(item), end |-> Len(text)])],
    [text |-> << >>, segments |-> << >>], Items(raw))

Characters(pages) == FoldSeq(LAMBDA p, n : Len(p.text) + n, 0, pages)

\* The text that is stored is a JSON document: every segment again, with its
\* excerpt and its place.
Serialized(pages) ==
  FoldSeq(LAMBDA p, n : Len(p.text) + n
      + FoldSeq(LAMBDA s, m : 2 * Len(s.text) + LocatorLength + m, 0, p.segments), 0, pages)

-----------------------------------------------------------------------------
ReadyIntake == [at |-> "ready", request |-> None, taken |-> 0, next |-> 1, scanning |-> FALSE,
                page |-> 1, pages |-> << >>, failure |-> None]
Shut == [open |-> FALSE, document |-> FALSE, page |-> FALSE]

IntakeInit ==
  /\ intake = ReadyIntake
  /\ session = Shut
  /\ stuck = {}
  /\ receipt = None

Answer(status, code, kept) ==
  /\ receipt' = [status |-> status, code |-> code, kept |-> kept]
  /\ intake' = [intake EXCEPT !.at = "answered"]

Refuse(status, code) == Answer(status, code, None)

PdfAndVideoAgree(kind, mime) ==
  /\ (kind = "contract_pdf") = (mime = "application/pdf")
  /\ (kind = "viewing_video") = (mime = "video/mp4")

(* The metadata as guardSingleUploadRequest sees them again: the kind and  *)
(* the declared type agree, and the file's name ends like the type.        *)
MetadataAgree(r) == PdfAndVideoAgree(r.kind, r.mime) /\ r.named

(* The headers, then the metadata.                                         *)
Receive(r) ==
  /\ intake.at = "ready"
  /\ IF MetadataAgree(r)
     THEN intake' = [intake EXCEPT !.at = "reading", !.request = r] /\ UNCHANGED receipt
     ELSE /\ receipt' = [status |-> 400, kept |-> None,
                         code |-> IF PdfAndVideoAgree(r.kind, r.mime)
                                  THEN "UPLOAD_FILENAME_INVALID" ELSE "UPLOAD_REQUEST_INVALID"]
          /\ intake' = [intake EXCEPT !.at = "answered", !.request = r]
  /\ UNCHANGED <<session, stuck>>

\* FAULT: the limit is looked at when the whole body has been read.
ReadAll(r, taken) == TRUE

WithinLimit(r, taken) == taken <= MaxBytes[r.kind]

(* readBoundedStream takes one piece of the body.                          *)
ReadPiece ==
  LET r == intake.request
      piece == r.chunks[intake.next] IN
  /\ intake.at = "reading" /\ intake.next \in DOMAIN r.chunks
  /\ IF ~piece.bytes THEN Refuse(400, "UPLOAD_STREAM_INVALID")
     ELSE IF ~WithinLimit(r, intake.taken + piece.size) THEN Refuse(400, "UPLOAD_FILE_TOO_LARGE")
     ELSE /\ intake' = [intake EXCEPT !.taken = @ + piece.size, !.next = @ + 1]
          /\ UNCHANGED receipt
  /\ UNCHANGED <<session, stuck>>

(* The body ends, or breaks off; the first bytes must show the type that   *)
(* was declared.                                                           *)
BodyEnds ==
  LET r == intake.request IN
  /\ intake.at = "reading" /\ intake.next \notin DOMAIN r.chunks
  /\ IF r.breaks THEN Refuse(400, "UPLOAD_STREAM_INVALID")
     ELSE IF intake.taken = 0 THEN Refuse(400, "UPLOAD_FILE_EMPTY")
     ELSE IF r.magic = None THEN Refuse(400, "UPLOAD_UNSUPPORTED_MEDIA")
     ELSE IF r.magic # r.mime THEN Refuse(400, "UPLOAD_MIME_MISMATCH")
     ELSE IF r.magic = "video/mp4" THEN Answer(202, "queued", [video |-> intake.taken])
     ELSE /\ intake' = [intake EXCEPT !.at = IF r.magic = "application/pdf" THEN "open" ELSE "image"]
          /\ UNCHANGED receipt
  /\ UNCHANGED <<session, stuck>>

-----------------------------------------------------------------------------
(* PDF files: extractTextPdf, then inspectScannedPdf when there is no text.*)
Fail(code) == [intake EXCEPT !.at = "close", !.failure = code]

SuspectCode(active) ==
  CASE "script" \in active -> "PDF_ACTIVE_CONTENT_DISALLOWED"
    [] "script" \notin active /\ "attachment" \in active -> "PDF_ATTACHMENTS_DISALLOWED"
    [] {"script", "attachment"} \cap active = {} /\ "form" \in active ->
         "PDF_FORMS_ACTIONS_DISALLOWED"
    [] active = {"link"} -> "PDF_EXTERNAL_LINKS_DISALLOWED"

LoadCode(load) ==
  CASE load = "encrypted" -> "PDF_ENCRYPTED"
    [] load = "damaged" -> "PDF_DAMAGED"
    [] OTHER -> "PDF_PARSE_FAILED"

Doc == intake.request.content

(* PDF.js opens the bytes within the deadline, or does not.                *)
OpenPdf ==
  /\ intake.at = "open"
  /\ \/ /\ session' = [Shut EXCEPT !.open = TRUE]
        /\ \E code \in {"PDF_PARSE_TIMEOUT"}
                \cup (IF Doc.load = "fine" THEN {} ELSE {LoadCode(Doc.load)}) :
             intake' = Fail(code)
     \/ /\ Doc.load = "fine"
        /\ session' = [Shut EXCEPT !.open = TRUE, !.document = TRUE]
        /\ IF Len(Doc.pages) \notin 1 .. MaxPages
           THEN intake' = Fail(IF Doc.pages = << >> THEN "PDF_LOCATOR_INSUFFICIENT"
                               ELSE "PDF_PAGE_LIMIT_EXCEEDED")
           ELSE \/ \E code \in {"PDF_PARSE_TIMEOUT", "PDF_PARSE_FAILED"} : intake' = Fail(code)
                \/ intake' = IF Doc.active # {} THEN Fail(SuspectCode(Doc.active))
                             ELSE [intake EXCEPT !.at = "page", !.page = 1, !.pages = << >>]
  /\ UNCHANGED <<stuck, receipt>>

(* The next page, unless the deadline passes or PDF.js cannot make it.     *)
OpenPage ==
  /\ intake.at = "page" /\ intake.page <= Len(Doc.pages)
  /\ \/ /\ session' = [session EXCEPT !.page = TRUE]
        /\ intake' = [intake EXCEPT !.at = "look"]
     \/ /\ \E code \in {"PDF_PARSE_TIMEOUT", "PDF_PARSE_FAILED"} : intake' = Fail(code)
        /\ UNCHANGED session
  /\ UNCHANGED <<stuck, receipt>>

\* FAULT: a page is not looked at for active content, only the document is.
LookAtNothing(page) == {}

ActiveIn(page) == page.active

\* Looking at a page and reading its text end in the page's clean-up.
LookAtPage ==
  LET page == Doc.pages[intake.page]
      built == BuildPage(page.items)
      kept == Append(intake.pages, built) IN
  /\ intake.at = "look"
  /\ \/ \E code \in {"PDF_PARSE_TIMEOUT", "PDF_PARSE_FAILED"} :
          intake' = [intake EXCEPT !.at = "tidy", !.failure = code]
     \/ intake' = [intake EXCEPT
          !.at = "tidy",
          !.pages = IF intake.scanning \/ ActiveIn(page) # {} THEN @ ELSE kept,
          !.failure = IF ActiveIn(page) # {} THEN SuspectCode(ActiveIn(page))
                      ELSE IF ~intake.scanning /\ Characters(kept) > MaxText
                           THEN "PDF_TEXT_LIMIT_EXCEEDED" ELSE None]
  /\ UNCHANGED <<session, stuck, receipt>>

(* A page's clean-up that fails takes the place of the page's own failure; *)
(* of a scan, it is reported as a parsing failure.                         *)
TidyPage ==
  /\ intake.at = "tidy"
  /\ \/ /\ session' = [session EXCEPT !.page = FALSE]
        /\ intake' = IF intake.failure # None THEN Fail(intake.failure)
                     ELSE [intake EXCEPT !.at = "page", !.page = @ + 1]
        /\ UNCHANGED stuck
     \/ /\ intake' = Fail(IF intake.scanning THEN "PDF_PARSE_FAILED"
                          ELSE "PDF_RESOURCE_CLEANUP_FAILED")
        /\ stuck' = stuck \cup {"page"}
        /\ UNCHANGED session
  /\ UNCHANGED receipt

\* FAULT: one page without text makes the contract a scan.
SomePageEmpty(pages) == \E i \in DOMAIN pages : pages[i].segments = << >>

NoText(pages) == \A i \in DOMAIN pages : pages[i].segments = << >>

PagesEnd ==
  /\ intake.at = "page" /\ intake.page > Len(Doc.pages)
  /\ intake' = IF ~intake.scanning /\ NoText(intake.pages)
               THEN Fail("PDF_LOCATOR_INSUFFICIENT")
               ELSE [intake EXCEPT !.at = "close"]
  /\ UNCHANGED <<session, stuck, receipt>>

\* FAULT: the session of a failed reading is left to itself.
CloseAfterReading ==
  /\ intake.at = "close"
  /\ intake' = [intake EXCEPT !.at = "closed"]
  /\ session' = IF intake.failure = None THEN Shut ELSE session
  /\ UNCHANGED <<stuck, receipt>>

(* The finally of both: the document, then the session.  Reading goes on   *)
(* to the session when the document's clean-up fails; a scan does not.     *)
ClosePdf ==
  /\ intake.at = "close"
  /\ \E ofDocument, ofSession \in BOOLEAN :
       LET untried == ofDocument /\ intake.scanning
           left == ofSession \/ untried IN
       /\ ofDocument => session.document
       /\ untried => ~ofSession
       /\ session' = [open |-> left, document |-> ofDocument,
                      page |-> session.page /\ (ofDocument \/ left)]
       /\ stuck' = stuck \cup (IF ofDocument THEN {"document"} ELSE {})
                         \cup (IF left THEN {"session"} ELSE {})
       /\ intake' = [intake EXCEPT
            !.at = "closed",
            !.failure = IF ofDocument \/ left THEN "PDF_RESOURCE_CLEANUP_FAILED" ELSE @]
  /\ UNCHANGED receipt

(* What the route does with the result: a contract without text is looked  *)
(* at again and queued when recognition is agreed to; text is searched for *)
(* secrets and kept when its stored form is not too long.                  *)
AfterPdf ==
  /\ intake.at = "closed"
  /\ IF intake.failure = "PDF_LOCATOR_INSUFFICIENT" /\ ~intake.scanning
     THEN /\ intake' = [intake EXCEPT !.at = "open", !.scanning = TRUE, !.failure = None]
          /\ session' = Shut
          /\ UNCHANGED receipt
     ELSE /\ IF intake.failure # None THEN Refuse(422, intake.failure)
             ELSE IF intake.scanning
                  THEN IF intake.request.agreed
                       THEN Answer(202, "queued", [scan |-> Doc.pages])
                       ELSE Refuse(409, "OCR_CLOUD_CONFIRMATION_REQUIRED")
             ELSE IF Doc.secret THEN Refuse(422, "UPLOAD_AUTH_SECRET_DETECTED")
             ELSE IF Serialized(intake.pages) > MaxText
                  THEN Refuse(400, "REAL_DEMO_REQUEST_INVALID")
                  ELSE Answer(201, "kept", [text |-> intake.pages])
          /\ UNCHANGED session
  /\ UNCHANGED stuck

-----------------------------------------------------------------------------
\* FAULT: what sharp wrote is taken as it is.
TakenAsItIs(copy) == TRUE

CleanCopy(copy) == copy.edge \in 1 .. MaxEdge /\ copy.metadata = {} /\ copy.srgb

(* SharpImageSanitizer: the image's own numbers, the drawn copy, and the   *)
(* copy's numbers; each of the three may take too long.                    *)
SanitizeImage ==
  LET image == intake.request.content IN
  /\ intake.at = "image"
  /\ \/ Refuse(422, "UPLOAD_IMAGE_PROCESSING_FAILED")
     \/ /\ image.format = intake.request.mime /\ image.pages = 1
        /\ image.pixels \in 1 .. MaxPixels
        /\ CleanCopy(image.copy)
        /\ Answer(201, "kept", [image |-> image.copy])
  /\ UNCHANGED <<session, stuck>>

IntakeNext ==
  \/ \E r \in Requests : Receive(r)
  \/ ReadPiece
  \/ BodyEnds
  \/ OpenPdf
  \/ OpenPage
  \/ LookAtPage
  \/ TidyPage
  \/ PagesEnd
  \/ ClosePdf
  \/ AfterPdf
  \/ SanitizeImage

-----------------------------------------------------------------------------
(* The intake's record, the session and the answer have their shapes.      *)
IntakeTypeOK ==
  /\ intake.at \in {"ready", "reading", "open", "page", "look", "tidy", "close", "closed",
                    "image", "answered"}
  /\ (intake.at = "answered") = (receipt # None)
  /\ session.page => session.document \/ stuck # {}
  /\ Len(intake.pages) <= MaxPages

(* No more of a body is held than its kind may have, however it is cut     *)
(* into pieces (stream-guard, readBoundedStream).                          *)
BodyIsBounded ==
  intake.request # None => intake.taken <= MaxBytes[intake.request.kind]

(* When an upload is answered nothing of PDF.js is open any more, whatever *)
(* failed on the way, except what a failed clean-up left                   *)
(* (extract-text, inspect-scanned-pdf).                                    *)
PdfIsClosed ==
  intake.at = "answered" =>
    /\ session.page => "page" \in stuck
    /\ session.document => "document" \in stuck
    /\ session.open => "session" \in stuck

(* Every located piece of a kept contract is the text at its place in its  *)
(* page, the pieces follow each other, and nothing else but the blanks     *)
(* between them is in the page (text-normalization).                       *)
PiecesAreInTheirPage ==
  receipt # None /\ receipt.code = "kept" /\ intake.request.kind = "contract_pdf" =>
    \A i \in DOMAIN receipt.kept.text :
      LET p == receipt.kept.text[i] IN
      /\ \A j \in DOMAIN p.segments :
           LET s == p.segments[j] IN
           /\ SubSeq(p.text, s.start + 1, s.end) = s.text
           /\ j > 1 => s.start = p.segments[j - 1].end + 1
           /\ Blank \notin {Head(s.text), Last(s.text)}
      /\ p.segments # << >> => Last(p.segments).end = Len(p.text)

(* What is kept or queued has the type that was declared, and nothing      *)
(* active in it: no script, file, form or link in the document or in any   *)
(* page, no more pages than allowed, no secret in its text, no metadata in *)
(* an image's copy.                                                        *)
KeptFilesAreHarmless ==
  receipt # None /\ receipt.kept # None =>
    LET r == intake.request IN
    /\ r.magic = r.mime /\ PdfAndVideoAgree(r.kind, r.mime)
    /\ r.mime = "application/pdf" =>
         /\ Doc.active = {} /\ \A i \in DOMAIN Doc.pages : Doc.pages[i].active = {}
         /\ Len(Doc.pages) \in 1 .. MaxPages
         /\ receipt.code = "kept" => ~Doc.secret
    /\ r.kind = "listing_image" => receipt.kept.image.metadata = {}

(* A contract counts as a scan only when no page has text, and is queued   *)
(* for recognition only when that was agreed to; one with text on some     *)
(* page is kept with that text, and its pages without text are kept empty. *)
ScansHaveNoText ==
  intake.request # None /\ intake.request.kind = "contract_pdf" =>
    /\ intake.scanning \/ intake.failure = "PDF_LOCATOR_INSUFFICIENT" =>
         \A i \in DOMAIN Doc.pages : Items(Doc.pages[i].items) = << >>
    /\ receipt # None /\ receipt.code = "queued" => intake.scanning /\ intake.request.agreed
    /\ receipt # None /\ receipt.code = "kept" => Len(receipt.kept.text) = Len(Doc.pages)
=============================================================================
