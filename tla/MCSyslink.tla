---- MODULE MCSyslink ----
EXTENDS Syslink
MCSizeOf == <<2, 3, 1>>
====
