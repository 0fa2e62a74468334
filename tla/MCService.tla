---------------------------- MODULE MCService ----------------------------
(* Instances of DocumentService for TLC: which operations each request may *)
(* be.  A request that only uploads supplies the documents of the run.     *)
EXTENDS DocumentService, TLC

CONSTANTS u1, u2, s1, s2, d1

MCTenantOf == [c \in Products |-> CHOOSE t \in Tenants : TRUE]
MCRefs == Reqs \X {1, 2}
MCHashes == SUBSET Reqs
MCNoHash == {}

\* Requests with operations of their own choosing.
Roles(sign, disturb) ==
    [p \in Reqs |-> CASE p \in {u1, u2} -> {"upload"}
                      [] p \in {s1, s2} -> sign
                      [] p = d1 -> disturb]

\* Two signers, in a container or in place, and the owner's removal.
MCRaceOps == Roles({"complete", "addsig", "signed"}, {"delete"})

\* Two co-signers and a request that reads, removes or absorbs.
MCFaultOps == Roles({"complete", "addsig"}, {"delete", "bundle", "read"})

\* Two signed-PDF stores of the same file.
MCPdfOps == Roles({"signed"}, {})

\* A bundle, an edit of it, and a signer, a second document or an extraction.
MCBundleOps == Roles({"bundle", "rebundle"}, {"complete", "upload", "assemble", "extract"})

\* A bound on the workflow service: it freezes one document at a time, a container.
OneFrozen ==
    \A d, e \in DocIds :
        rows[d].frozen /\ rows[e].frozen => d = e /\ rows[d].kind = "container"

\* Signing requests only, and a sweep.
MCSweepOps == Roles({"complete", "signed"}, {"delete"})

\* Reading, archiving and removing one document.
MCLifeOps == Roles({"read", "archive"}, {"delete"})

\* A co-signature and an archive timestamp of the same container.
MCArchiveOps == Roles({"addsig", "archive"}, {})

\* A co-signature and a bundling of the same container.
MCAbsorbOps == Roles({"addsig", "bundle"}, {})

\* Uploads only.
MCUploadOps == Roles({}, {})

\* s1 and s2 play the same roles; persons are only compared.
MCSymmetry == Permutations({s1, s2} \cap Reqs) \cup Permutations(Persons)
=============================================================================
