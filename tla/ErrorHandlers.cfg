SPECIFICATION Spec
CONSTANTS
  MaxRaised = 4
  MaxHandlers = 2
  Masks = {{"warning", "deprecated", "error"}, {"deprecated"}}
  Batch = 2
INVARIANTS
  TypeOK DealtWithOnce HandlerTakesLevel NothingOutlivesItsStatement
  NoNestedHandlers HandlersStartSound
