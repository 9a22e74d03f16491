---- MODULE MCConverter ----
\* A rendered PDF and an upload, each tried twice, on one container with one
\* slot of each kind: an abandoned attempt competes with its own successor.
EXTENDS Converter
CONSTANTS j1, u1
MCJob == {j1, u1}
MCUpload == {u1}
====
