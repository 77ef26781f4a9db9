-------------------------------- MODULE MCPipe --------------------------------
EXTENDS Pipe
CONSTANTS a, b
TwoChunks == <<a, b>>
=============================================================================
