------------------------------ MODULE WebPages ------------------------------
(***************************************************************************)
(* The pages a browser shows side by side in their tabs: the reader of a   *)
(* document with its highlights, and the public pages of profiles and      *)
(* documents. None reads what another keeps.                               *)
(*   apps/web/features/pdf, features/profiles, app/u, app/p                *)
(***************************************************************************)
EXTENDS PdfView, PdfHighlights, Profiles

webPagesVars == <<pdfVars, highlightVars, profileVars>>

WebPagesInit == PdfInit /\ HighlightInit /\ ProfilesInit

WebPagesNext ==
    \/ PdfNext /\ UNCHANGED <<highlightVars, profileVars>>
    \/ HighlightNext /\ UNCHANGED <<pdfVars, profileVars>>
    \/ ProfilesNext /\ UNCHANGED <<pdfVars, highlightVars>>

WebPagesSpec == WebPagesInit /\ [][WebPagesNext]_webPagesVars

-----------------------------------------------------------------------------
\* Properties

(* The pages of the browser: the PDF reader with its highlights, and the    *)
(* public pages of a profile and of a document.                             *)
WebPagesSound == PdfSound /\ MarksAreStored /\ ProfilesSound
=============================================================================
