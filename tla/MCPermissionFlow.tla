-------------------------- MODULE MCPermissionFlow --------------------------
\* Small instances of PermissionFlow for TLC: one device of each kind the code
\* tells apart.
EXTENDS PermissionFlow

AndroidQ == [sdk |-> 29, useSAF |-> TRUE, libexif |-> FALSE]
AndroidR == [sdk |-> 30, useSAF |-> FALSE, libexif |-> FALSE]
AndroidT == [sdk |-> 33, useSAF |-> TRUE, libexif |-> TRUE]

AllDevices == {AndroidQ, AndroidR, AndroidT}
=============================================================================
