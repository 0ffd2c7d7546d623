SPECIFICATION Spec
CONSTANTS
  Rooms = {room1}
  Orders = {order1}
  Coupons = {coupon1, coupon2}
  Transfers = {transfer1}
  Handlers = {h1, h2}
  NoRoom = noRoom
  NoOrder = noOrder
  NoCoupon = noCoupon
  OrderTTL = 1
  CouponTTL = 2
  IdempotencyTTL = 2
  MaxTime = 2
  Extra = 1
  Redeems = 0
  Failures = 1
PROPERTIES
  PaymentsAreGranted
CHECK_DEADLOCK FALSE
