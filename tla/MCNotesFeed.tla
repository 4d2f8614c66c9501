---------------------------- MODULE MCNotesFeed ----------------------------
(* A feed with two notes of another author and the user's own to come,     *)
(* read one note at a time.                                                *)
EXTENDS NotesFeed

CONSTANTS me, other

MCAuthorOf == <<other, other, me>>
MCFilters  == {{}, {me}}
=============================================================================
