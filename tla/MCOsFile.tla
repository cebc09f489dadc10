------------------------------ MODULE MCOsFile ------------------------------
\* Releases and chunks for OsFile: their differences in size are smaller than
\* a chunk, equal to it and larger.
EXTENDS OsFile, TLC

MCVersions  == {"v1", "v2", "v3", "v4"}
MCPatchSize == [v \in MCVersions |->
                   CASE v = "v1" -> 1 [] v = "v2" -> 2 [] v = "v3" -> 4 [] v = "v4" -> 4]
=============================================================================
