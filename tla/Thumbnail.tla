------------------------------ MODULE Thumbnail ------------------------------
(***************************************************************************)
(* The picture of a file, fetched from the printer in pieces while the      *)
(* popup with the file's details is on display (PanelDue.cpp,               *)
(* Library/Thumbnail.cpp).                                                  *)
(*                                                                          *)
(* Drawing the popup asks for the details of the file (M36); the answer     *)
(* lists the pictures the file holds, and the best that fits is fetched     *)
(* piece by piece (M36.1), each answer naming the next piece.  A piece is   *)
(* drawn when the answer with it has ended.  The user closes the popup and  *)
(* opens that of another file while answers are on their way, and answers   *)
(* are cut short.                                                           *)
(***************************************************************************)
EXTENDS Integers, Sequences, SequencesExt

CONSTANTS
    Files, NoFile,
    Images,         \* the pictures of each file, in the order of the list
    FieldWidth, FieldHeight,
    MaxViews,       \* bound: how often the popup is drawn
    MaxCuts         \* bound: answers cut short

Image(width, height, format, pieces) ==
    [width |-> width, height |-> height, format |-> format, pieces |-> pieces]

ThumbnailAssumption ==
    /\ NoFile \notin Files
    /\ {FieldWidth, FieldHeight, MaxViews, MaxCuts} \subseteq Nat
    /\ Images \in [Files -> Seq([width : Nat, height : Nat, format : STRING,
                                pieces : Nat])]

Piece(f, i, n) == [file |-> f, image |-> i, n |-> n]
Place(i, n) == [image |-> i, n |-> n]       \* an offset in a file
EndOfImage == Place(0, 0)                   \* offset 0
NoData == Piece(NoFile, 0, 0)

VARIABLES
    popup,          \* the file whose details are on display
    picture,        \* the pieces drawn since the popup was
    requests,       \* sent to the printer and not yet answered
    answer,         \* the answer being received
    filenameCurrent,
    thumbnailCurrent,
    thumbnailData,
    decoded         \* the pieces the decoder was given since ThumbnailInit

VARIABLES views, cuts,
    disturbed       \* since the popup was drawn, see PictureCompletes

vars == <<popup, picture, requests, answer, filenameCurrent, thumbnailCurrent,
          thumbnailData, decoded, views, cuts, disturbed>>

InfoRequest(f) == [kind |-> "info", file |-> f, place |-> EndOfImage]
DataRequest(f, place) == [kind |-> "data", file |-> f, place |-> place]
OtherRequest == [kind |-> "other", file |-> NoFile, place |-> EndOfImage]
NoAnswer == [request |-> OtherRequest, pos |-> 0]

(* ThumbnailContext::Init                                                   *)
NoThumbnail == [state |-> "Init", width |-> 0, height |-> 0,
                next |-> EndOfImage, failed |-> FALSE]

Init ==
    /\ popup = NoFile /\ picture = <<>>
    /\ requests = <<>> /\ answer = NoAnswer
    /\ filenameCurrent = NoFile /\ thumbnailCurrent = NoThumbnail
    /\ thumbnailData = NoData /\ decoded = <<>>
    /\ views = 0 /\ cuts = 0 /\ disturbed = FALSE

panel == <<filenameCurrent, thumbnailCurrent, thumbnailData, decoded>>

-----------------------------------------------------------------------------
(* The user *)

Idle == requests = <<>> /\ answer = NoAnswer /\ thumbnailCurrent.state = "Init"

(* The popup is drawn in full (ThumbnailRefreshNotify).                     *)
Draw(f) ==
    /\ views < MaxViews
    /\ views' = views + 1
    /\ popup' = f
    /\ picture' = <<>>
    /\ requests' = Append(requests, InfoRequest(f))
    /\ disturbed' = ~Idle
    /\ UNCHANGED <<answer, panel, cuts>>

FileSelected == popup = NoFile /\ \E f \in Files : Draw(f)

(* What was above the popup goes, so that it is drawn again.                *)
Redraw == popup # NoFile /\ Draw(popup)

ClosePopup ==
    /\ popup # NoFile
    /\ popup' = NoFile
    /\ UNCHANGED <<picture, requests, answer, panel, views, cuts, disturbed>>

-----------------------------------------------------------------------------
(* Receiving *)

HasPiece(f, place) ==
    f # NoFile /\ place.image \in DOMAIN Images[f]
    /\ place.n \in 1 .. Images[f][place.image].pieces
Length(request) ==
    CASE request.kind = "info" -> 1 + Len(Images[request.file])
      [] request.kind = "data" -> 4
      [] request.kind = "other" -> 0
Receiving(kind, pos) == answer.request.kind = kind /\ answer.pos = pos
Consumed == answer' = [answer EXCEPT !.pos = answer.pos + 1]

\* Mutant: what is left of a picture that is done is kept.
FreshNot == UNCHANGED panel

Fresh ==
    IF thumbnailCurrent.state = "Init"
    THEN /\ filenameCurrent' = NoFile /\ thumbnailCurrent' = NoThumbnail
         /\ thumbnailData' = NoData /\ decoded' = <<>>
    ELSE UNCHANGED panel

(* The answer may also be one to a poll of the printer's state.             *)
StartReceivedMessage ==
    /\ answer = NoAnswer
    /\ \/ /\ requests # <<>>
          /\ answer' = [request |-> Head(requests), pos |-> 1]
          /\ requests' = Tail(requests)
       \/ /\ answer' = [request |-> OtherRequest, pos |-> 1]
          /\ UNCHANGED requests
    /\ Fresh
    /\ UNCHANGED <<popup, picture, views, cuts, disturbed>>

rest == <<popup, picture, requests, views, cuts, disturbed>>

ReceiveFilename ==
    /\ Receiving("info", 1)
    /\ Consumed
    /\ filenameCurrent' = answer.request.file
    /\ UNCHANGED <<rest, thumbnailCurrent, thumbnailData, decoded>>

FitsBetter(image, current) ==
    /\ image.format = "qoi"
    /\ image.height > 0 /\ image.width > 0
    /\ current.height < image.height /\ image.height <= FieldHeight
    /\ current.width < image.width /\ image.width <= FieldWidth

(* The fields of a picture and the end of its array element.                *)
ReceiveThumbnail ==
    /\ answer.request.kind = "info"
    /\ LET i == answer.pos - 1
           images == Images[answer.request.file]
       IN  /\ i \in DOMAIN images
           /\ IF FitsBetter(images[i], thumbnailCurrent)
              THEN /\ thumbnailCurrent' =
                          [state |-> "Header", width |-> images[i].width,
                           height |-> images[i].height, next |-> Place(i, 1),
                           failed |-> FALSE]
                   /\ decoded' = <<>>
              ELSE UNCHANGED <<thumbnailCurrent, decoded>>
    /\ Consumed
    /\ UNCHANGED <<rest, filenameCurrent, thumbnailData>>

ReceiveDataFilename ==
    /\ Receiving("data", 1)
    /\ Consumed
    /\ thumbnailCurrent' = [thumbnailCurrent EXCEPT
           !.failed = @ \/ filenameCurrent # answer.request.file]
    /\ UNCHANGED <<rest, filenameCurrent, thumbnailData, decoded>>

(* Without data for that place, the printer leaves out data and next.       *)
ReceiveData ==
    /\ Receiving("data", 2)
    /\ Consumed
    /\ LET request == answer.request
       IN  IF HasPiece(request.file, request.place)
           THEN /\ thumbnailData' =
                       Piece(request.file, request.place.image, request.place.n)
                /\ thumbnailCurrent' = [thumbnailCurrent EXCEPT !.state = "Data"]
           ELSE UNCHANGED <<thumbnailData, thumbnailCurrent>>
    /\ UNCHANGED <<rest, filenameCurrent, decoded>>

After(f, place) ==
    IF place.n = Images[f][place.image].pieces THEN EndOfImage
    ELSE Place(place.image, place.n + 1)
ReceiveNext ==
    /\ Receiving("data", 3)
    /\ Consumed
    /\ LET request == answer.request
       IN  IF HasPiece(request.file, request.place)
           THEN thumbnailCurrent' = [thumbnailCurrent EXCEPT
                    !.next = After(request.file, request.place)]
           ELSE UNCHANGED thumbnailCurrent
    /\ UNCHANGED <<rest, filenameCurrent, thumbnailData, decoded>>

ReceiveErr ==
    /\ Receiving("data", 4)
    /\ Consumed
    /\ thumbnailCurrent' = [thumbnailCurrent EXCEPT
           !.failed = @ \/ ~HasPiece(answer.request.file, answer.request.place)]
    /\ UNCHANGED <<rest, filenameCurrent, thumbnailData, decoded>>

(* Whether a piece continues what the decoder was given, beginning with the *)
(* dimensions of the picture.                                               *)
Continues(piece) ==
    IF decoded = <<>> THEN piece.n = 1
    ELSE piece = [Last(decoded) EXCEPT !.n = @ + 1]
SizeOf(piece) ==
    [width |-> Images[piece.file][piece.image].width,
     height |-> Images[piece.file][piece.image].height]

(* ThumbnailDecodeChunk and UpdateFileThumbnailChunk: whether it succeeds,  *)
(* and whether something is drawn.  Of a piece out of place the decoder     *)
(* makes some pixels or an error.                                           *)
DecodeChunk ==
    LET size == [width |-> thumbnailCurrent.width, height |-> thumbnailCurrent.height]
    IN  IF size.width = 0 THEN {[ok |-> FALSE, drawn |-> FALSE]}
        ELSE IF ~Continues(thumbnailData)
        THEN {[ok |-> FALSE, drawn |-> FALSE]}
             \cup (IF popup = NoFile THEN {}
                   ELSE {[ok |-> ok, drawn |-> TRUE] : ok \in BOOLEAN})
        ELSE LET ok == popup # NoFile /\ SizeOf(thumbnailData) = size
             IN  {[ok |-> ok, drawn |-> ok]}

EndReceivedMessage ==
    /\ answer.pos = 1 + Length(answer.request)
    /\ answer' = NoAnswer
    /\ LET state == IF thumbnailCurrent.failed THEN "Init" ELSE thumbnailCurrent.state
           become(s) == thumbnailCurrent' = [thumbnailCurrent EXCEPT !.state = s]
       IN  \/ /\ state = "Header"
              /\ become("DataRequest")
              /\ UNCHANGED <<picture, decoded>>
           \/ /\ state = "Data"
              /\ \E outcome \in DecodeChunk :
                    /\ become(IF ~outcome.ok \/ thumbnailCurrent.next = EndOfImage
                              THEN "Init" ELSE "DataRequest")
                    /\ picture' = IF outcome.drawn THEN Append(picture, thumbnailData)
                                  ELSE picture
              /\ decoded' = Append(decoded, thumbnailData)
           \/ /\ state \notin {"Header", "Data"}
              /\ become(state)
              /\ UNCHANGED <<picture, decoded>>
    /\ UNCHANGED <<popup, requests, filenameCurrent, thumbnailData, views, cuts,
                   disturbed>>

(* The rest of an answer, or all of it, is lost.                            *)
CutShort ==
    /\ answer.request.kind # "other"
    /\ cuts < MaxCuts
    /\ cuts' = cuts + 1
    /\ answer' = NoAnswer
    /\ disturbed' = TRUE
    /\ UNCHANGED <<popup, picture, requests, panel, views>>

(* The main loop, between two messages.                                     *)
RequestData ==
    /\ answer = NoAnswer
    /\ thumbnailCurrent.state = "DataRequest"
    /\ requests' = Append(requests, DataRequest(filenameCurrent, thumbnailCurrent.next))
    /\ thumbnailCurrent' = [thumbnailCurrent EXCEPT !.state = "DataWait"]
    /\ UNCHANGED <<popup, picture, answer, filenameCurrent, thumbnailData, decoded,
                   views, cuts, disturbed>>

Next ==
    \/ FileSelected \/ Redraw \/ ClosePopup
    \/ StartReceivedMessage \/ ReceiveFilename \/ ReceiveThumbnail
    \/ ReceiveDataFilename \/ ReceiveData \/ ReceiveNext \/ ReceiveErr
    \/ EndReceivedMessage \/ CutShort
    \/ RequestData
Spec == Init /\ [][Next]_vars

-----------------------------------------------------------------------------
(* Properties *)

Pieces(f, i) == [n \in 1 .. Images[f][i].pieces |-> Piece(f, i, n)]
Showable(f) == {i \in DOMAIN Images[f] : FitsBetter(Images[f][i], NoThumbnail)}

(* The pictures that may be chosen: none that can be shown is both wider    *)
(* and higher.                                                              *)
Best(f) == {i \in Showable(f) : \A j \in Showable(f) :
               Images[f][j].width <= Images[f][i].width
               \/ Images[f][j].height <= Images[f][i].height}

Underway ==
    \/ requests # <<>> \/ answer # NoAnswer
    \/ thumbnailCurrent.state = "DataRequest"

(* The popup shows pieces of one picture of its own file, a best one, in    *)
(* their order and from the first, whatever was fetched for other files     *)
(* before, and whether that ended or failed; and it gets to show them all:  *)
(* as long as pieces are missing there is a request to answer or to send.   *)
(* The popup must have been drawn when no transfer was under way: a piece   *)
(* of the last file is drawn over the next one's, the rest of it is asked   *)
(* for under the next one's name, and what was drawn of a picture is lost   *)
(* if the popup is drawn again.  Nor may an answer have been cut short: if  *)
(* the data has come, but not the place of the next piece, the same piece   *)
(* is drawn twice, and if nothing has, nothing is asked for again.          *)
PictureCompletes ==
    popup # NoFile /\ ~disturbed =>
        IF Best(popup) = {} THEN picture = <<>>
        ELSE \E i \in Best(popup) :
                 /\ IsPrefix(picture, Pieces(popup, i))
                 /\ Underway \/ picture = Pieces(popup, i)

=============================================================================
