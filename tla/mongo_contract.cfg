SPECIFICATION MongoSpec
CONSTANTS
  NoDoc = NoDoc
  NoPayload = NoPayload
  Devices = {sw1, sw2}
  Docs = {v1, v2}
  Runtimes = {r1, r2}
PROPERTIES ImplementsStore
