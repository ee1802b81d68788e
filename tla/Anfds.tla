------------------------------- MODULE Anfds -------------------------------
(***************************************************************************)
(* What ev.c itself keeps of file descriptors, whatever the backend.       *)
(***************************************************************************)
CONSTANTS
    Watchers,   \* the io watchers
    Fds         \* descriptors

VARIABLES
    open,       \* which descriptors are open, or what file each names
    active,     \* the started watchers: the lists at anfds[fd].head
    events,     \* anfds[fd].events: what backend_modify was told last
    reify,      \* anfds[fd].reify, a set of flags
    fdchanges,  \* the descriptors to reify
    pc          \* where the loop is
=============================================================================
