------------------------------- MODULE Forward -------------------------------
(***************************************************************************)
(* One RFQ forwarded to its desk, with the filled form on it               *)
(* (handlers._deliver, _send; infrastructure/outlook/mailbox.py,           *)
(* client.py).                                                             *)
(*                                                                         *)
(* Graph cannot forward and attach in one call: a draft is made, the form  *)
(* put on it - whole or, a large one, in chunks - and the draft sent; when *)
(* a step fails the draft is deleted and the email forwarded without the   *)
(* form.  Then the message is labelled, and the label is what keeps it     *)
(* from being handled again.  A request does what it says, is refused, or  *)
(* does it and its answer is lost; the service may stop anywhere, between  *)
(* the forward and the label as well, and a message without a label may be *)
(* announced again to a service that does not remember it.                 *)
(*                                                                         *)
(* `blames`, `unheard` and `repeats` are not in the code: the failures     *)
(* that leave a draft nobody deletes, the emails sent without our hearing  *)
(* of it, and the times a message was handled again that had been sent.    *)
(***************************************************************************)
EXTENDS Integers, Sequences, Functions

CONSTANTS
  Chunks,      \* the chunks of a form over INLINE_ATTACHMENT_LIMIT
  MaxHandled   \* bound: how often the message is handled

ASSUME ForwardBounds == Chunks \in Nat \ {0} /\ MaxHandled \in Nat \ {0}

VARIABLES
  carrying,    \* the workbook: "none", "inline" or "upload", by its size
  doing,       \* the request to be made next, "label" the last, or "over"
  chunk,       \* chunks uploaded
  drafted,     \* the draft this call made: "none", "bare", "whole", "sent"
  strays,      \* drafts nobody holds
  mails,       \* what the desk received
  delivery,    \* "pending", "stopped", or the Delivery: "form", "plain", "failed"
  labelled,    \* whether the message carries a label of ours
  handled, blames, unheard, repeats

forwarding ==
  <<carrying, doing, chunk, drafted, strays, mails, delivery, labelled, handled, blames,
    unheard, repeats>>

\* A delivery about to start.
FirstRequest(workbook) == IF workbook = "none" THEN "forward" ELSE "create"

ForwardInit ==
  /\ carrying \in {"none", "inline", "upload"}
  /\ doing = FirstRequest(carrying)
  /\ chunk = 0 /\ drafted = "none" /\ strays = 0 /\ mails = <<>>
  /\ delivery = "pending" /\ handled = 1 /\ blames = 0 /\ unheard = 0
  /\ labelled = FALSE /\ repeats = 0

-----------------------------------------------------------------------------
\* Mailbox._forward_carrying

\* createForward.
CreateDraft ==
  /\ doing = "create"
  /\ \/ /\ drafted' = "bare"
        /\ doing' = IF carrying = "inline" THEN "attach" ELSE "session"
        /\ UNCHANGED <<strays, blames>>
     \/ /\ doing' = "forward"
        /\ UNCHANGED <<drafted, strays, blames>>
     \* The draft is there, and nobody was told its id.
     \/ /\ doing' = "forward"
        /\ strays' = strays + 1
        /\ blames' = blames + 1
        /\ UNCHANGED drafted
  /\ UNCHANGED <<carrying, chunk, mails, delivery, handled, unheard, labelled, repeats>>

\* _attach, a small file: one request.
AttachInline ==
  /\ doing = "attach"
  /\ \/ drafted' = "whole" /\ doing' = "send"
     \/ drafted' = drafted /\ doing' = "discard"
     \/ drafted' = "whole" /\ doing' = "discard"
  /\ UNCHANGED <<carrying, chunk, strays, mails, delivery, handled, blames, unheard, labelled,
                 repeats>>

\* _attach, a large file: an upload session first.
OpenSession ==
  /\ doing = "session"
  /\ doing' \in {"upload", "discard"}
  /\ UNCHANGED <<carrying, chunk, drafted, strays, mails, delivery, handled, blames, unheard,
                 labelled, repeats>>

\* Faulty: an upload that is over when the last chunk has been begun.
UploadAllButOne ==
  /\ doing = "upload"
  /\ \/ /\ chunk' = chunk + 1
        /\ drafted' = IF chunk + 1 = Chunks THEN "whole" ELSE drafted
        /\ doing' = IF chunk + 1 >= Chunks - 1 THEN "send" ELSE "upload"
     \/ chunk' = chunk /\ drafted' = drafted /\ doing' = "discard"
  /\ UNCHANGED <<carrying, strays, mails, delivery, handled, blames, unheard, labelled, repeats>>

\* GraphClient.upload: the file is on the draft with its last chunk.
UploadChunk ==
  /\ doing = "upload"
  /\ \/ /\ chunk' = chunk + 1
        /\ drafted' = IF chunk + 1 = Chunks THEN "whole" ELSE drafted
        /\ doing' \in {IF chunk + 1 = Chunks THEN "send" ELSE "upload", "discard"}
     \/ chunk' = chunk /\ drafted' = drafted /\ doing' = "discard"
  /\ UNCHANGED <<carrying, strays, mails, delivery, handled, blames, unheard, labelled, repeats>>

SendDraft ==
  /\ doing = "send"
  /\ \/ /\ mails' = Append(mails, drafted)
        /\ drafted' = "none" /\ doing' = "label" /\ delivery' = "form"
        /\ UNCHANGED unheard
     \/ /\ doing' = "discard"
        /\ UNCHANGED <<mails, drafted, delivery, unheard>>
     \* It went, and is no draft any more; we take it for a failure.
     \/ /\ mails' = Append(mails, drafted)
        /\ drafted' = "sent" /\ doing' = "discard"
        /\ unheard' = unheard + 1
        /\ UNCHANGED delivery
  /\ UNCHANGED <<carrying, chunk, strays, handled, blames, labelled, repeats>>

\* _discard: whatever comes of it, the call goes on to fail.
Discard ==
  /\ doing = "discard"
  /\ doing' = "forward"
  /\ drafted' = "none"
  /\ \/ UNCHANGED <<strays, blames>>
     \/ /\ drafted # "sent"
        /\ strays' = strays + 1
        /\ blames' = blames + 1
  /\ UNCHANGED <<carrying, chunk, mails, delivery, handled, unheard, labelled, repeats>>

-----------------------------------------------------------------------------
\* handlers._deliver: once more, without the form; or the only attempt.

ForwardPlain ==
  /\ doing = "forward"
  /\ doing' = "label"
  /\ \/ /\ mails' = Append(mails, "plain")
        /\ delivery' = "plain"
        /\ UNCHANGED unheard
     \/ /\ delivery' = "failed"
        /\ UNCHANGED <<mails, unheard>>
     \/ /\ mails' = Append(mails, "plain")
        /\ delivery' = "failed"
        /\ unheard' = unheard + 1
  /\ UNCHANGED <<carrying, chunk, drafted, strays, handled, blames, labelled, repeats>>

\* handle: "forwarding runs before labelling on purpose".  The label is put on,
\* or refused, which is only logged, or the service stops before it or while it
\* is on its way: the desk has its email, and the message a label or none.
Label ==
  /\ doing = "label"
  /\ doing' = "over"
  /\ labelled' \in BOOLEAN
  /\ UNCHANGED <<carrying, chunk, drafted, strays, mails, delivery, handled, blames, unheard,
                 repeats>>

\* The service stops or dies in the forward; the request in flight may have been
\* carried out.
StopHere ==
  /\ delivery = "pending"
  /\ delivery' = "stopped"
  /\ doing' = "over"
  /\ drafted' = "none"
  /\ LET left == drafted \in {"bare", "whole"}
         goes == doing \in {"send", "forward"}
     IN \/ /\ strays' = IF left THEN strays + 1 ELSE strays
           /\ blames' = IF left THEN blames + 1 ELSE blames
           /\ UNCHANGED <<mails, unheard>>
        \/ /\ goes
           /\ mails' = Append(mails, IF doing = "send" THEN drafted ELSE "plain")
           /\ unheard' = unheard + 1
           /\ UNCHANGED <<strays, blames>>
        \/ /\ doing = "create"
           /\ strays' = strays + 1
           /\ blames' = blames + 1
           /\ UNCHANGED <<mails, unheard>>
  /\ UNCHANGED <<carrying, chunk, handled, labelled, repeats>>

\* A message Graph announces again is left alone for its label, and for nothing
\* else once the memory of ids is gone.
HandleAgain ==
  /\ doing = "over" /\ ~labelled
  /\ handled < MaxHandled
  /\ handled' = handled + 1
  /\ delivery' = "pending"
  /\ \E workbook \in {"none", "inline", "upload"} :
       carrying' = workbook /\ doing' = FirstRequest(workbook)
  /\ chunk' = 0
  /\ repeats' = IF delivery \in {"form", "plain"} THEN repeats + 1 ELSE repeats
  /\ UNCHANGED <<drafted, strays, mails, blames, unheard, labelled>>

ForwardNext ==
  \/ CreateDraft \/ AttachInline \/ OpenSession \/ UploadChunk \/ SendDraft
  \/ Discard \/ ForwardPlain \/ Label \/ StopHere \/ HandleAgain

ForwardSpec == ForwardInit /\ [][ForwardNext]_forwarding

\* Nothing to forward: the values of a program that is doing something else.
NothingToForward ==
  /\ carrying = "none" /\ doing = "over" /\ chunk = 0 /\ drafted = "none" /\ strays = 0
  /\ mails = <<>> /\ delivery = "failed" /\ handled = MaxHandled /\ blames = 0 /\ unheard = 0
  /\ labelled = FALSE /\ repeats = 0

-----------------------------------------------------------------------------
\* Properties

\* "The desk already has its email": what is reported is what the desk received,
\* the form whole or not at all; each email beyond the one reported is one that
\* went out unheard, or that was reported and never labelled before the message
\* was handled again; and each draft left behind has its own failed deletion,
\* lost id or stop.
DeliveryIsAsReported ==
  /\ "bare" \notin Range(mails)
  /\ delivery = "form" => mails # <<>> /\ mails[Len(mails)] = "whole"
  /\ delivery = "plain" => mails # <<>> /\ mails[Len(mails)] = "plain"
  /\ Len(mails) <= unheard + repeats + (IF delivery \in {"form", "plain"} THEN 1 ELSE 0)
  /\ strays <= blames

-----------------------------------------------------------------------------
\* What a comment of the code says and the code does not keep.

\* mailbox.py: deleted, because "otherwise every retry leaves another half-built
\* forward in Drafts": a delivery that is over leaves none.
NoDraftIsLeft == doing = "over" => strays = 0

\* "The file is what failed, not the forward": an RFQ is not sent twice by one
\* delivery.
OneEmailPerDelivery == handled = 1 => Len(mails) <= 1
=============================================================================
