----------------------------- MODULE MCSyncFeed -----------------------------
(* What the two rows are, and how much happens to them.                     *)
EXTENDS SyncFeed

Of(kinds, changes, edits, faults, resets, overlaps) ==
    [kind |-> kinds, changes |-> changes, edits |-> edits,
     faults |-> faults, resets |-> resets, overlaps |-> overlaps]

TestScenes == {
    \* two edits, one of which may be lost, rejected or given up
    Of(<<"PLAYLIST", "PLAYLIST">>, 2, 2, 1, 0, 0),
    \* a cursor or a snapshot that expires, and a call that is lost
    Of(<<"PLAYLIST", "PLAYLIST">>, 2, 1, 1, 1, 0),
    \* runs that overlap: two bootstraps, a bootstrap and a pull, a push and a pull
    Of(<<"PLAYLIST", "PLAYLIST">>, 2, 0, 0, 1, 1),
    Of(<<"PLAYLIST", "PLAYLIST">>, 1, 1, 0, 1, 2),
    Of(<<"PLAYLIST", "PLAYLIST">>, 1, 2, 0, 0, 1),
    \* rows that are treated differently
    Of(<<"PREFERENCE", "LIBRARY_ENTRY">>, 2, 1, 0, 1, 0),
    Of(<<"PREFERENCE", "LIBRARY_ENTRY">>, 1, 1, 0, 1, 1),
    Of(<<"PREFERENCE", "PLAYLIST">>, 1, 2, 1, 0, 0),
    Of(<<"UNKNOWN", "PLAYLIST">>, 2, 1, 0, 1, 0)
}
=============================================================================
