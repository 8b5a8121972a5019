------------------------------ MODULE CertChains ------------------------------
(***************************************************************************)
(* The two validators of X.509 chains: validate_certificate_chain of the   *)
(* simulation (simulations/core/crypto/chain_validator.py, with the checks *)
(* around it in simulations/api/core/auth.py) and                          *)
(* validate_x509_certificate_chain of the admin server (security.py), and  *)
(* what both promise of the certificates themselves.  The black lists that *)
(* both ask as well, and the Redis they are in, are in SignedRequests.     *)
(*                                                                         *)
(* A certificate is a record: name and issuer, the key it certifies and    *)
(* the key that signed it, its first and last day, whether it is a CA      *)
(* ("yes", "no", or "absent" without BasicConstraints), its KeyUsage as a  *)
(* set (or {"absent"}), path_length (or NoLimit) and the role its OU       *)
(* gives.                                                                  *)
(* A chain has a leaf and an enclave certificate, or NoCert, above it.     *)
(***************************************************************************)
EXTENDS Integers

CONSTANTS Root, NoCert, NoLimit

\* The root certificate of the PKI is that of a CA and may sign certificates (pki/core/ca_engine.py).
ASSUME RootAssumption == Root.ca = "yes" /\ "certSign" \in Root.usage /\ "absent" \notin Root.usage

InForce(c, t) == c.from <= t /\ t <= c.to
Holds(c, usage) == usage \in c.usage
HasUsage(c) == c.usage # {"absent"}

\* Mutant: the names are compared, the signature is not verified.
ByName(c, issuer) == c.issuer = issuer.name
ByCA(c, issuer) == c.issuer = issuer.name /\ c.signedBy = issuer.key

\* BasicConstraints, KeyUsage and path_length of the issuer
MaySign(issuer, isCa) ==
    /\ issuer.ca = "yes"
    /\ IF HasUsage(issuer) THEN Holds(issuer, "certSign") ELSE ~isCa
    /\ isCa => issuer.pathLength # 0

\* ... and of the certificate itself
Constrained(c, isCa) ==
    /\ IF isCa THEN c.ca = "yes" ELSE c.ca # "yes"
    /\ IF HasUsage(c) THEN IF isCa THEN Holds(c, "certSign")
                                   ELSE Holds(c, "digital") /\ ~Holds(c, "certSign")
                      ELSE ~isCa

\* validate_certificate_chain: what it says of one certificate below its issuer
SimLink(c, issuer, isCa, t) ==
    /\ InForce(c, t) /\ InForce(issuer, t)
    /\ ByCA(c, issuer)
    /\ MaySign(issuer, isCa)
    /\ Constrained(c, isCa)

SimChain(chain, t) ==
    IF chain.enclave = NoCert THEN SimLink(chain.leaf, Root, FALSE, t)
    ELSE SimLink(chain.enclave, Root, TRUE, t) /\ SimLink(chain.leaf, chain.enclave, FALSE, t)

SimRole(chain) == chain.leaf.role # "none"

-----------------------------------------------------------------------------
\* validate_x509_certificate_chain; it does not look at the life of the root.
RagEnclave(chain, t) ==
    /\ InForce(chain.enclave, t)
    /\ ByCA(chain.enclave, Root)
    /\ Root.ca = "yes" /\ Root.pathLength # 0
    /\ chain.enclave.ca = "yes" /\ Holds(chain.enclave, "certSign")

RagLeaf(c) ==
    /\ c.ca # "yes"
    /\ HasUsage(c) => Holds(c, "digital") /\ ~Holds(c, "certSign")

RagChain(chain, t) ==
    /\ InForce(chain.leaf, t)
    /\ chain.leaf.issuer # chain.leaf.name
    /\ IF chain.enclave = NoCert THEN ByCA(chain.leaf, Root)
       ELSE RagEnclave(chain, t) /\ ByCA(chain.leaf, chain.enclave)
    /\ RagLeaf(chain.leaf)

\* An operator's role, or an agent vouched for by its enclave.
RagRole(chain) ==
    \/ chain.leaf.role = "operator"
    \/ chain.leaf.role = "agent" /\ chain.enclave # NoCert

-----------------------------------------------------------------------------
(* What both promise: each certificate up to the root is in force and      *)
(* comes from the one above it, which may issue it.                        *)

Links(chain) ==
    IF chain.enclave = NoCert THEN {<<chain.leaf, Root>>}
    ELSE {<<chain.leaf, chain.enclave>>, <<chain.enclave, Root>>}

Authentic(chain, t) ==
    /\ \A link \in Links(chain) :
        /\ InForce(link[1], t)
        /\ link[1].issuer = link[2].name /\ link[1].signedBy = link[2].key
        /\ link[2].ca = "yes" /\ link[2].usage \intersect {"certSign", "absent"} # {}
    /\ chain.leaf.ca # "yes" /\ ~Holds(chain.leaf, "certSign")
=============================================================================
