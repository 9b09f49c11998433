----------------------------- MODULE MCConfFiles ------------------------------
(* A small instance of ConfFiles for TLC: key/value files. *)
EXTENDS ConfFiles

MCWords == {"port", "host", "user"}
MCTexts == {"1"}
KV == INSTANCE KeyValue WITH Words <- MCWords, Texts <- MCTexts, Trim <- [t \in MCTexts |-> t]

SetRequest(key) ==
    [type |-> "EQUAL", entries |-> <<[key |-> key, text |-> "1", type |-> "NUMBER"]>>]

\* Neither is set at first.
MCRequests == {SetRequest("host"), SetRequest("user")}

MCLines == KV!Line

MCOriginal == <<KV!Comment("host"), KV!Setting("port", "=", [quoted |-> FALSE, text |-> "1"])>>

MCRewrite(file, q) == KV!ConfigureLines(file, q)
=============================================================================
