------------------------------ MODULE PageStore ------------------------------
(***************************************************************************)
(* What a zram device promises its user: an array of pages.  A page reads  *)
(* as the user last wrote it until the user writes it again or discards    *)
(* it; nothing else that the driver does is visible.                       *)
(***************************************************************************)
EXTENDS Integers

CONSTANTS
    Pages,       \* the pages a device can have, numbered from 0
    Vals, None   \* page contents; the content of a page not written

VARIABLES
    size,        \* the pages the device has; 0 while it is not set up
    asked,       \* what the user has last asked each page to hold
    content,     \* what each page holds
    reply        \* what a read returned: {} or one pair <<page, value>>

vars == <<size, asked, content, reply>>

Blank == [i \in Pages |-> None]

Init == size = 0 /\ asked = Blank /\ content = Blank /\ reply = {}

SetUp ==
    /\ size = 0 /\ size' \in Nat \ {0} /\ asked' = Blank /\ content' = Blank
    /\ UNCHANGED reply

Write(i, v) ==
    /\ i < size
    /\ asked' = [asked EXCEPT ![i] = v] /\ content' = [content EXCEPT ![i] = v]
    /\ UNCHANGED <<size, reply>>

Discard(i) == Write(i, None)

Read(i) ==
    /\ i < size /\ reply' = {<<i, content[i]>>}
    /\ UNCHANGED <<size, asked, content>>

TakeReply == reply' = {} /\ UNCHANGED <<size, asked, content>>

Reset == size' = 0 /\ asked' = Blank /\ content' = Blank /\ UNCHANGED reply

Next ==
    \/ TakeReply \/ SetUp \/ Reset
    \/ \E i \in Pages : Read(i) \/ Discard(i) \/ \E v \in Vals : Write(i, v)

Spec == Init /\ [][Next]_vars
=============================================================================
