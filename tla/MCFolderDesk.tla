---------------------------- MODULE MCFolderDesk ----------------------------
\* Instances of FolderDesk for TLC: see the .cfg files that name this module.
EXTENDS FolderDesk
=============================================================================
