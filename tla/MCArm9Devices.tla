--------------------------- MODULE MCArm9Devices ---------------------------
(* Jobs of every kind, of one or two blocks, for TLC. *)
EXTENDS Arm9Devices

(* Two programs of the XDMA: two blocks of the SHA engine's queue are       *)
(* written from 1 on (in each of two jobs they hold the words from job.from *)
(* on), and six words of the memory from 50 on are copied to 1.             *)
Mov(source, inc, size, dest) ==
    [op |-> "MOV", fields |-> [source_addr |-> source, inc_src |-> inc, load_size |-> size,
                               dest_addr |-> dest, inc_dest |-> 1, store_size |-> size]]
Programs == <<
    Mov(Fifo("SHA"), 0, 16, Mem(1)),
    [op |-> "LP", index |-> 1, n |-> 1],
    [op |-> "WFP"],
    [op |-> "LD", burst |-> FALSE],
    [op |-> "LD", burst |-> TRUE],
    [op |-> "ST", burst |-> TRUE],
    [op |-> "FLUSHP"],
    [op |-> "LPEND", index |-> 1, to |-> 3],
    [op |-> "SEV", event |-> 2],
    [op |-> "END"],
    Mov(Mem(50), 1, 1, Mem(1)),
    [op |-> "LP", index |-> 1, n |-> 2],
    [op |-> "LP", index |-> 2, n |-> 1],
    [op |-> "LD", burst |-> TRUE],
    [op |-> "NOP"],
    [op |-> "ST", burst |-> TRUE],
    [op |-> "LPEND", index |-> 2, to |-> 14],
    [op |-> "LPEND", index |-> 1, to |-> 13],
    [op |-> "SEV", event |-> 3],
    [op |-> "KILL"] >>

RsaJobs ==
    {[route |-> "rsa", slot |-> p[1], keyorder |-> p[2], order |-> p[3],
      todo |-> {"slot", "order", "go"}] :
     p \in {<<0, FALSE, FALSE>>, <<3, TRUE, FALSE>>, <<0, FALSE, TRUE>>}}

XdmaSteps == {"ie", "if", "kill", "go"}
XdmaJobs ==
    {[route |-> "xdma", n |-> 2, chan |-> 1, at |-> 1, event |-> 2, words |-> 32, first |-> 0,
      todo |-> XdmaSteps \union {"cnt", "in", "in!"}],
     [route |-> "xdma", n |-> 0, chan |-> 0, at |-> 11, event |-> 3, words |-> 6, first |-> 49,
      todo |-> XdmaSteps]}

AesSteps == {"count", "ctr", "cnt", "in", "in!", "out", "out!"}

AesJobs ==
    {[route |-> "aes", n |-> p[1], mode |-> p[2], inorder |-> p[3],
      outorder |-> p[4], size |-> p[5], todo |-> AesSteps] :
     p \in {<<1, 0, TRUE, FALSE, 4>>, <<2, 4, FALSE, FALSE, 8>>,
            <<3, 5, TRUE, TRUE, 4>>, <<5, 2, FALSE, TRUE, 4>>, <<2, 6, TRUE, TRUE, 8>>}}

ShaJob_(n, mode, echo, todo) ==
    [route |-> "sha", n |-> n, mode |-> mode, echo |-> echo,
     todo |-> {"cnt", "end"} \union todo]

ShaJobs ==
    {ShaJob_(p[1], p[2], "none", {}) : p \in {<<3, 0>>, <<13, 2>>, <<14, 0>>, <<31, 0>>}}
    \union {ShaJob_(n, 0, "none", {"in", "in!"}) : n \in {16, 19}}
    \union {ShaJob_(n, 2, "SHA_OUT", {"in", "in!", "out", "out!"}) : n \in {16, 33}}
    \union {ShaJob_(n, 0, "AES2", {"in", "in!", "out", "out!", "clear"}) : n \in {16, 35}}

MmcJobs ==
    {[route |-> "mmc", n |-> p[1], len |-> 2, by |-> p[2], write |-> p[3], stops |-> p[4],
      todo |-> {"regs", "mask", "ack", "cmd"}
               \union (IF p[2] = "cpu" THEN {} ELSE {"chan", "chan!"})] :
     p \in {<<1, "cpu", FALSE, FALSE>>, <<2, "cpu", TRUE, TRUE>>, <<2, "AES2", FALSE, TRUE>>,
            <<3, "MMC1", FALSE, TRUE>>, <<3, "MMC1", TRUE, TRUE>>}}

SdJobs ==
    {[route |-> "sd", cmd |-> cmd, todo |-> {"idle", "any", "app", "cmd", "ack"}] :
     cmd \in {13, 41, 51}}

CardJobs ==
    {[route |-> "card", n |-> n, todo |-> {"blocks", "cmd", "chan", "chan!"}] : n \in {1, 3}}
    \union {[route |-> "card2", n |-> n, todo |-> {"begin", "end", "plain", "ntr"}] : n \in {1, 2}}

SaveJobs ==
    {[route |-> "save", n |-> 3, read |-> 6, cmd |-> cmd,
      todo |-> {"select", "write", "addr", "cmd", "len", "off", "select2", "read",
                "addr2", "len2", "param", "cmd2"}] : cmd \in {3, 235}}

OtherJobs ==
    {[route |-> "copy", n |-> 3, todo |-> {"in", "in!"}],
     [route |-> "keys", n |-> 6, todo |-> {"flip", "slot", "dsi"}]}

AllJobs ==
    AesJobs \union ShaJobs \union XdmaJobs \union RsaJobs \union MmcJobs \union SdJobs \union CardJobs \union SaveJobs
    \union OtherJobs
=============================================================================
