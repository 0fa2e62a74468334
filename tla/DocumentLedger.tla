--------------------------- MODULE DocumentLedger ---------------------------
(***************************************************************************)
(* What the service promises whoever calls it, without rows, objects or    *)
(* retries: a set of documents, each some bytes or nothing, on which every *)
(* request takes effect at once and at most once, and only before it is    *)
(* told so.                                                                *)
(*                                                                         *)
(* Bytes are the set of requests that contributed to them.                 *)
(***************************************************************************)
CONSTANTS Docs, Reqs, Ops

VARIABLES
    content,    \* Docs -> bytes, {} when there is nothing to read
    op,         \* what each request asks for
    fate        \* how far it is

ledgerVars == <<content, op, fate>>

Fates == {"none",       \* not sent
          "open",       \* no effect so far
          "applied",    \* in effect, not answered
          "ok",         \* answered: done
          "refused",    \* answered: not done, and nothing happened
          "unseen",     \* answered: not found, perhaps by now
          "unknown"}    \* answered: failed, perhaps after the effect

LedgerTypeOK ==
    /\ content \in [Docs -> SUBSET Reqs]
    /\ op \in [Reqs -> Ops]
    /\ fate \in [Reqs -> Fates]

LedgerInit ==
    /\ content = [d \in Docs |-> {}]
    /\ op \in [Reqs -> Ops]
    /\ fate = [p \in Reqs |-> "none"]

Becomes(p, f) == fate' = [fate EXCEPT ![p] = f]

\* A request is sent.
Submit(p) ==
    /\ fate[p] = "none" /\ Becomes(p, "open")
    /\ \E o \in Ops : op' = [op EXCEPT ![p] = o]
    /\ UNCHANGED content

\* Documents outside D keep their bytes or, if they may, lose them.
Others(D, mayGo) ==
    \A e \in Docs \ D : content'[e] = content[e] \/ (mayGo /\ content'[e] = {})

\* The effect of each operation: one document holds something of the request, and
\* nothing else is touched.  An upload and a bundle make a new document; a
\* signature makes a new one or adds to one, and never takes anything out of it;
\* a signed pdf, an archive form and an edited bundle may also take the place of
\* one; a bundle absorbs its sources; a delete only takes away.
Effect(p) ==
    /\ content' \in [Docs -> SUBSET Reqs]
    /\ \/ op[p] = "delete" /\ Others({}, TRUE)
       \/ /\ op[p] \notin {"delete", "read", "extract", "none"}
          /\ \E d \in Docs :
                /\ p \in content'[d]
                /\ Others({d}, op[p] \in {"bundle", "rebundle"})
                /\ op[p] = "upload" => content'[d] = {p}
                /\ op[p] \in {"upload", "bundle"} => content[d] = {}
                /\ op[p] \in {"complete", "addsig"} => content[d] \subseteq content'[d]

\* A request takes effect.
Apply(p) ==
    /\ fate[p] = "open" /\ Becomes(p, "applied")
    /\ Effect(p)
    /\ UNCHANGED op

\* Answers.  Only what is in effect is confirmed, reads apart; what is refused
\* never was and never will be in effect.
Reply(p) ==
    /\ \/ /\ fate[p] = "applied" \/ (fate[p] = "open" /\ op[p] \in {"read", "extract"})
          /\ Becomes(p, "ok")
       \/ fate[p] = "open" /\ Becomes(p, "refused")
       \/ fate[p] \in {"open", "applied"} /\ Becomes(p, "unseen")
       \/ fate[p] \in {"open", "applied"} /\ Becomes(p, "unknown")
    /\ UNCHANGED <<content, op>>

\* Retention runs out.
Expire ==
    /\ UNCHANGED <<op, fate>>
    /\ content' \in [Docs -> SUBSET Reqs] /\ Others({}, TRUE)

LedgerNext == Expire \/ \E p \in Reqs : Submit(p) \/ Apply(p) \/ Reply(p)

LedgerSpec == LedgerInit /\ [][LedgerNext]_ledgerVars
=============================================================================
