----------------------------- MODULE MCLinuxHarden -----------------------------
(* A small instance of LinuxHarden. *)
EXTENDS LinuxHarden

File(root, empty, match, ok) ==
    [kind |-> "file", root |-> root, empty |-> empty, match |-> match, ok |-> ok]

\* A file that ends in a Match block, one that sshd refuses, and none.
Files ==
    {File("absent", "comment", TRUE, TRUE), File("other", "other", FALSE, FALSE), NoFile}

\* Off, and on without a rule for SSH; neither has one stored.
Found ==
    {[active |-> FALSE, permitted |-> FALSE, reach |-> FALSE],
     [active |-> TRUE, permitted |-> FALSE, reach |-> TRUE]}
=============================================================================
