---- MODULE MCMailBatch ----
EXTENDS MailBatch, TLC

CONSTANTS a, b

Interleaved == <<a, b, a>>
====
