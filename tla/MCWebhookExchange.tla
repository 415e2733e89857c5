------------------------- MODULE MCWebhookExchange -------------------------
(* Instances of WebhookExchange for TLC. *)
EXTENDS WebhookExchange, TLC

Public  == V4(93, 184, 215, 14)
Private == V4(169, 254, 255, 255)

\* The resolver finds nothing, the public address, or a mixture.
MCAnswers == {{}, {Public}, {Public, Mapped(Private)}}

ByName    == Url("a", "https", FALSE, {})
Insecure  == Url("a", "http", FALSE, {})
ByAddress == Url("b", "https", FALSE, {Public})
ByMapped  == Url("c", "https", FALSE, {Mapped(Private)})

\* d1 on each route, by name or by address.  d2 is only registered: beside a d1 that
\* fails, and elsewhere its URL is refused.
Setup(url, path, other) ==
    [d \in Deliveries |-> IF d = "d1" THEN [url |-> url, path |-> path]
                          ELSE [url |-> other, path |-> "/hooks"]]

MCSetups == {Setup(ByAddress, "/hooks/slow", Insecure), Setup(ByName, "/hooks", Insecure),
             Setup(ByMapped, "/hooks/fail", ByName)}
=============================================================================
