--------------------------- MODULE MCSignedRequests ---------------------------
(***************************************************************************)
(* A small instance of SignedRequests for TLC: every chain in which one    *)
(* certificate, the leaf or the enclave's, has at most one defect.  In     *)
(* requests without a defect certificates are revoked meanwhile.           *)
(***************************************************************************)
EXTENDS SignedRequests, TLC

CONSTANTS h1, h2

Symmetry == Permutations(Handlers)

Cert(name, issuer, ca, usage) ==
    [name |-> name, issuer |-> issuer, key |-> name, signedBy |-> issuer, from |-> 0, to |-> 9,
     ca |-> ca, usage |-> usage, pathLength |-> NoLimit, role |-> "none"]

MCRoot == [Cert("root", "root", "yes", {"certSign"}) EXCEPT !.pathLength = 1, !.to = 4]
Enclave == [Cert("enclave", "root", "yes", {"certSign"}) EXCEPT !.pathLength = 0]
Leaf(issuer) == [Cert("bank", issuer, "no", {"digital"}) EXCEPT !.role = "agent"]

Defects(c) ==
    {c, [c EXCEPT !.to = 3], [c EXCEPT !.from = 3], [c EXCEPT !.issuer = "stranger"],
     [c EXCEPT !.signedBy = "stranger"], [c EXCEPT !.ca = "absent"],
     [c EXCEPT !.ca = IF c.ca = "yes" THEN "no" ELSE "yes"],
     [c EXCEPT !.usage = {"absent"}], [c EXCEPT !.usage = {"digital", "certSign"}],
     [c EXCEPT !.usage = IF c.ca = "yes" THEN {"digital"} ELSE {"certSign"}],
     [c EXCEPT !.role = "operator"], [c EXCEPT !.name = c.issuer]}

Chains ==
    {[leaf |-> l, enclave |-> NoCert] : l \in Defects(Leaf("root"))}
    \union {[leaf |-> l, enclave |-> Enclave] : l \in Defects(Leaf("enclave"))}
    \union {[leaf |-> Leaf("enclave"), enclave |-> e] : e \in Defects(Enclave)}
GoodChain == [leaf |-> Leaf("enclave"), enclave |-> Enclave]

GoodTls == [required |-> TRUE, proxy |-> TRUE, verified |-> TRUE, serial |-> TRUE,
            subject |-> TRUE, issuer |-> TRUE]
NoTls == [GoodTls EXCEPT !.required = FALSE, !.proxy = FALSE]
Tls == {GoodTls, NoTls, [GoodTls EXCEPT !.required = FALSE], [GoodTls EXCEPT !.proxy = FALSE],
        [GoodTls EXCEPT !.issuer = FALSE],
        [GoodTls EXCEPT !.verified = FALSE, !.serial = FALSE]}

Request(service, chain) ==
    [service |-> service, chain |-> chain, token |-> "none", tls |-> NoTls, exp |-> 0,
     dated |-> TRUE, revocable |-> {}]

MCRequests ==
    {Request(s, c) : s \in {"pki", "rag"}, c \in Chains}
    \union {Request("repeal", c) :
               c \in {[leaf |-> l, enclave |-> Enclave] : l \in Defects(Leaf("enclave"))}}
    \union {[Request(s, GoodChain) EXCEPT !.revocable = {c}] :
               s \in {"pki", "rag", "repeal"}, c \in {"leaf", "enclave"}}
    \union {[Request("rag", GoodChain) EXCEPT !.tls = t, !.revocable = {"tls"}] : t \in Tls}
    \union {[Request("enclave", GoodChain) EXCEPT !.token = t] :
               t \in {"none", "own", "main", "other", "unknown"}}
    \union {[Request("agent", GoodChain) EXCEPT !.exp = e, !.dated = d] :
               e \in 2 .. 6, d \in BOOLEAN}
    \union {[Request("agent", GoodChain) EXCEPT !.exp = 5, !.tls = GoodTls, !.revocable = {"tls"}]}
=============================================================================
