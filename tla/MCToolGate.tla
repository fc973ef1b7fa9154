---- MODULE MCToolGate ----
EXTENDS ToolGate
====
