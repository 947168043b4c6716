\* A client sends up to three messages, and uses the whole window of the server.
CONSTANTS
  WindowSize = 3  ClientWindow = 3  MaxSent = 3  MaxHello = 1
SPECIFICATION Spec
INVARIANTS TypeOK KeptUntilReceived RoomForNext NoOrphan
PROPERTIES InOrder
\* A server that was stopped, and a client with nothing more to send, are at rest.
CHECK_DEADLOCK FALSE
